---- MODULE Spec2Model ----
(***************************************************************************)
(* Model of the generated LoadRunner journey scripts                       *)
(* (loadrunner-tests/<company>_<timestamp>/BizObsJourneyTest.c).           *)
(*                                                                         *)
(* Every virtual user (Vuser) runs vuser_init once and then Action once    *)
(* per iteration.  Action is straight-line C code; the model has one       *)
(* action per stretch of code between two points where the Vuser observes  *)
(* the outside world: a time(NULL) read, the response of a                 *)
(* web_custom_request, the end of an lr_think_time pause.                  *)
(*                                                                         *)
(* The LoadRunner functions behave as documented: a web function that      *)
(* fails (no response, HTTP status >= 400) returns to the script and sets  *)
(* the automatic status of the open transactions to Fail; LR_AUTO ends a   *)
(* transaction with its automatic status; lr_eval_string leaves a          *)
(* reference to a parameter that was never saved as it is; the globals of  *)
(* a script are private to each Vuser.                                     *)
(*                                                                         *)
(* A run is fixed by its configuration (script, iterations, vusers, rng,   *)
(* target, clock), chosen in the initial state and never changed.  Spec    *)
(* covers runs of one Vuser, ConcurrentSpec runs of two Vusers at the same *)
(* time, TimedSpec runs during which the clock advances twice, FairSpec    *)
(* runs in which every Vuser keeps running.                                *)
(*                                                                         *)
(* The scripts run inside a load-generation engine that is not part of the *)
(* sources: it validates the configuration before it starts the Vusers,    *)
(* tallies the results the Vusers submit when they end a transaction, and  *)
(* can stop the run.  These three are modelled from the specification      *)
(* (StartRun, Submit, Stop).                                               *)
(*                                                                         *)
(* C strings are modelled as sequences of chunks: a string literal of the  *)
(* source is one chunk, a %d conversion yields one chunk per decimal       *)
(* digit.  Two strings of the same format are equal iff their chunk        *)
(* sequences are equal.                                                    *)
(***************************************************************************)
EXTENDS Integers, Sequences, FiniteSets, TLC

VARIABLES
    script,     \* the generated script this run executes
    iterations, \* the number of iterations each Vuser is to run
    run,        \* the phase of the run: startup, running, rejected, stopped
    results,    \* the results the Vusers have submitted, counted per key
    vusers,     \* the ids of the Vusers of this run
    rng,        \* per Vuser: the values rand() returns after srand()
    target,     \* what a request of this run can get: HTTP statuses, NoResponse
    clock,      \* the seconds the wall clock shows in the course of this run
    now,        \* wall-clock seconds, the value time(NULL) returns
    pc,         \* per Vuser: position in vuser_init / Action
    step,       \* per Vuser: index of the step being executed (0 outside steps)
    iteration,  \* per Vuser: lr_get_iteration_number()
    buf,        \* per Vuser: the global char buffers of the script
    params,     \* per Vuser: the LoadRunner parameter store
    settings,   \* per Vuser: the replay settings made by the web_set_ calls
    headers,    \* per Vuser: headers queued by web_add_header for the next request
    cookies,    \* per Vuser: the cookie jar, the requests whose responses set a cookie
    reverted,   \* per Vuser: header names the last clean-up passed to web_revert_auto_header
    open,       \* per Vuser: open transactions, name -> automatic status
    trace,      \* per Vuser: transaction/request/think events of the current iteration
    requests,   \* per Vuser: requests sent in the current iteration
    response,   \* per Vuser: HTTP status of the response being handled
    issued      \* identifiers generated so far, per (vuser, iteration)

vars ==
    <<script, iterations, run, results, vusers, rng, target, clock, now, pc,
      step, iteration, buf, params, settings, headers, cookies, reverted,
      open, trace, requests, response, issued>>

-----------------------------------------------------------------------------
(* Bounds *)

\* iterations each Vuser runs (run-time setting of the scenario)
MaxIteration == 2

\* ids the controller gave to the Vusers of the run (unique per Vuser)
VuserIds == {1, 11}

\* first wall-clock second of the run (2026-01-06T13:48:03Z)
StartTime == 1767707283

\* seconds the clock can show during a run: the first one, the next one,
\* and the one 10000 seconds later
ClockValues == {StartTime, StartTime + 1, StartTime + 10000}

\* a run during which the clock advances once, by 10000 seconds
OneLongTick == {StartTime, StartTime + 10000}

\* a run during which the clock advances once, by one second
OneShortTick == {StartTime, StartTime + 1}

\* streams rand() can produce after srand(): three successive values
RandStreams == {<<0, 0, 0>>, <<32767, 11, 15>>}

\* HTTP statuses the target can answer with
HttpStatuses == {200, 399, 400, 503}

\* the statuses of a target that answers with success or is unavailable
UpOrDown == {200, 503}

\* the status of a target that answers every request with success
Up == {200}

\* response of a request that got no answer (network error, timeout)
NoResponse == 0

-----------------------------------------------------------------------------
(* Catalogs (globals of the script) *)

customer_names == <<
    "Sarah Johnson", "Michael Chen", "Emma Rodriguez", "David Kim",
    "Ashley Thompson", "Robert Martinez", "Jennifer Lee", "Christopher Brown",
    "Amanda Wilson", "Joshua Garcia", "Melissa Davis", "Andrew Miller",
    "Jessica Anderson", "Kevin Taylor", "Lauren Thomas", "Brian Jackson" >>

customer_emails == <<
    "sarah.johnson@email.com", "michael.chen@email.com", "emma.rodriguez@email.com",
    "david.kim@email.com", "ashley.thompson@email.com", "robert.martinez@email.com",
    "jennifer.lee@email.com", "christopher.brown@email.com", "amanda.wilson@email.com",
    "joshua.garcia@email.com", "melissa.davis@email.com", "andrew.miller@email.com",
    "jessica.anderson@email.com", "kevin.taylor@email.com", "lauren.thomas@email.com",
    "brian.jackson@email.com" >>

customer_segments == <<
    "Premium", "Standard", "Budget", "Enterprise", "SMB", "Startup" >>

traffic_sources == <<
    "Google_Ads", "Facebook_Campaign", "Email_Newsletter", "Direct_Traffic",
    "Referral_Partner", "Organic_Search", "Social_Media", "Content_Marketing" >>

\* C arrays are 0-based, TLA+ sequences 1-based
At(arr, i) == arr[i + 1]

-----------------------------------------------------------------------------
(* The three generated scripts: the literals each one carries *)

StepDef(n, name, est, think) ==
    [stepNumber |-> n, stepName |-> name, serviceName |-> name \o "Service",
     estimatedDuration |-> est, thinkTime |-> think]

ArgosSix ==
    [company      |-> "Argos",
     domain       |-> "www.Argos.co.uk",
     initLSN      |-> "BizObs-Journey-LoadTest",
     initLTN      |-> "Argos_Performance_Test_2026-01-06T13-48-03-019Z",
     LSN          |-> "BizObs_Argos_www.Argos.co.uk_Journey",
     LTN          |-> "Argos_LoadTest_20260106",
     corrFormat   |-> "LR_Argos_LoadTest_20260106_",
     sessFormat   |-> "session_BizObs_Argos_www.Argos.co.uk_Journey_",
     errorSimulationEnabled |-> TRUE,
     steps        |-> << StepDef(1, "ProductDiscovery", 4, 5),
                         StepDef(2, "BasketManagement", 3, 5),
                         StepDef(3, "CheckoutInitiation", 5, 5),
                         StepDef(4, "PaymentProcessing", 3, 5),
                         StepDef(5, "FulfilmentAllocation", 2, 5),
                         StepDef(6, "DeliveryCompletion", 1440, 1) >>,
     totalSteps   |-> 6]

\* mutant: the two-step script keeps the totalSteps of the six-step template
ArgosTwoStaleTotal ==
    [ArgosSix EXCEPT
        !.initLTN = "Argos_Performance_Test_2026-01-06T14-00-16-681Z",
        !.steps = << StepDef(1, "ProductDiscovery", 4000, 4),
                     StepDef(2, "BasketManagement", 3000, 3) >>]

ArgosTwo ==
    [company      |-> "Argos",
     domain       |-> "www.Argos.co.uk",
     initLSN      |-> "BizObs-Journey-LoadTest",
     initLTN      |-> "Argos_Performance_Test_2026-01-06T14-00-16-681Z",
     LSN          |-> "BizObs_Argos_www.Argos.co.uk_Journey",
     LTN          |-> "Argos_LoadTest_20260106",
     corrFormat   |-> "LR_Argos_LoadTest_20260106_",
     sessFormat   |-> "session_BizObs_Argos_www.Argos.co.uk_Journey_",
     errorSimulationEnabled |-> TRUE,
     steps        |-> << StepDef(1, "ProductDiscovery", 4000, 4),
                         StepDef(2, "BasketManagement", 3000, 3) >>,
     totalSteps   |-> 2]

BtSix ==
    [company      |-> "Bt",
     domain       |-> "www.bt.com",
     initLSN      |-> "BizObs-Journey-LoadTest",
     initLTN      |-> "Bt_Performance_Test_2026-02-05T09-19-25-622Z",
     LSN          |-> "BizObs_Bt_www.bt.com_Journey",
     LTN          |-> "Bt_LoadTest_20260205",
     corrFormat   |-> "LR_Bt_LoadTest_20260205_",
     sessFormat   |-> "session_BizObs_Bt_www.bt.com_Journey_",
     errorSimulationEnabled |-> FALSE,
     steps        |-> << StepDef(1, "ComparisonClickthrough", 2, 5),
                         StepDef(2, "PlanSelection", 4, 5),
                         StepDef(3, "IdentityVerification", 3, 5),
                         StepDef(4, "BasketReview", 3, 5),
                         StepDef(5, "CheckoutPayment", 5, 5),
                         StepDef(6, "OrderConfirmationProvisioning", 2, 5) >>,
     totalSteps   |-> 6]

Scripts == {ArgosSix, ArgosTwo, BtSix}

NumSteps == Len(script.steps)

\* journey definitions that are malformed: one without steps, one whose
\* steps are not numbered by their position
NoSteps == [ArgosTwo EXCEPT !.steps = << >>, !.totalSteps = 0]

Misnumbered ==
    [ArgosTwo EXCEPT
        !.steps = << StepDef(2, "ProductDiscovery", 4000, 4),
                     StepDef(1, "BasketManagement", 3000, 3) >>]

Malformed == {NoSteps, Misnumbered}

-----------------------------------------------------------------------------
(* C library: %d, atoi *)

DigitChars == <<"0", "1", "2", "3", "4", "5", "6", "7", "8", "9">>

RECURSIVE FormatInt(_)
\* sprintf "%d" of a non-negative int: its decimal digits
FormatInt(n) ==
    IF n < 10 THEN << At(DigitChars, n) >>
              ELSE FormatInt(n \div 10) \o << At(DigitChars, n % 10) >>

IsDigit(c) == \E d \in 0..9 : At(DigitChars, d) = c

DigitValue(c) == CHOOSE d \in 0..9 : At(DigitChars, d) = c

RECURSIVE AtoiFrom(_, _, _)
AtoiFrom(s, i, acc) ==
    IF i > Len(s) \/ ~IsDigit(s[i])
        THEN acc
        ELSE AtoiFrom(s, i + 1, acc * 10 + DigitValue(s[i]))

\* atoi: the value of the leading digits, 0 when there are none
atoi(s) == AtoiFrom(s, 1, 0)

-----------------------------------------------------------------------------
(* LoadRunner parameter store *)

\* the text "{name}" that refers to parameter name
ParamRef(name) == "{" \o name \o "}"

\* lr_save_string(value, name)
lr_save_string(store, value, name) ==
    [k \in DOMAIN store \cup {name} |-> IF k = name THEN value ELSE store[k]]

RECURSIVE lr_eval_string(_, _)
\* lr_eval_string: every "{name}" of a defined parameter is replaced by its
\* value; a reference to a parameter that was never saved is left as it is
lr_eval_string(store, s) ==
    IF s = << >> THEN << >>
    ELSE LET c == Head(s)
             hit == {n \in DOMAIN store : ParamRef(n) = c}
         IN  (IF hit = {} THEN << c >> ELSE store[CHOOSE n \in hit : TRUE])
             \o lr_eval_string(store, Tail(s))

EmptyStore == [n \in {} |-> << >>]

-----------------------------------------------------------------------------
(* LoadRunner transactions *)

\* events recorded for the current iteration
Event(ev, name, outcome, secs) ==
    [ev |-> ev, name |-> name, outcome |-> outcome, secs |-> secs]

\* pausedAt of a transaction during which no lr_think_time is in progress
NotPaused == 0

\* mutant: starting a transaction restarts the timers of the open ones
lr_start_transaction_restarting(op, name, t) ==
    [k \in DOMAIN op \cup {name} |->
        IF k = name THEN [status |-> "Pass", since |-> t, think |-> 0,
                          pausedAt |-> NotPaused]
                    ELSE [op[k] EXCEPT !.since = t]]

\* lr_start_transaction(name) at second t: the transaction is open, its
\* timer starts, its automatic status is Pass until a web function fails
\* while it is open; no think time has been spent in it
lr_start_transaction(op, name, t) ==
    [k \in DOMAIN op \cup {name} |->
        IF k = name THEN [status |-> "Pass", since |-> t, think |-> 0,
                          pausedAt |-> NotPaused]
                    ELSE op[k]]

\* the outcome lr_end_transaction(name, status) records: LR_AUTO takes the
\* automatic status of the transaction
EndOutcome(op, name, status) ==
    IF status = "LR_AUTO" THEN op[name].status
    ELSE IF status = "LR_FAIL" THEN "Fail" ELSE "Pass"

\* mutant: ending a transaction that is not open ends one of no duration
EndEventLenient(op, name, status, t) ==
    IF name \in DOMAIN op
        THEN Event("end", name, EndOutcome(op, name, status), t - op[name].since)
        ELSE Event("end", name, "Pass", 0)

\* the event lr_end_transaction(name, status) leaves at second t: the
\* outcome and the duration measured since the start; ending a transaction
\* that is not open is reported as an error and ends nothing
EndEvent(op, name, status, t) ==
    IF name \in DOMAIN op
        THEN Event("end", name, EndOutcome(op, name, status), t - op[name].since)
        ELSE Event("end_not_open", name, "Error", 0)

\* mutant: lr_end_transaction records the end and leaves the transaction
\* open
lr_end_transaction_leaves_open(op, name, status) == op

\* the open transactions after lr_end_transaction(name, status)
lr_end_transaction(op, name, status) ==
    [k \in DOMAIN op \ {name} |-> op[k]]

\* lr_think_time is called at second t: the pause starts in every open
\* transaction
lr_think_time(op, t) == [k \in DOMAIN op |-> [op[k] EXCEPT !.pausedAt = t]]

\* lr_think_time returns at second t: the pause is added to the think time
\* of every open transaction
ThinkTimeOver(op, t) ==
    [k \in DOMAIN op |->
        [op[k] EXCEPT !.think = @ + (t - op[k].pausedAt),
                      !.pausedAt = NotPaused]]

\* a web function failed: every open transaction's automatic status is Fail
MarkFailed(op) == [k \in DOMAIN op |-> [op[k] EXCEPT !.status = "Fail"]]

\* web_custom_request fails when there is no response or the status is an
\* HTTP error
RequestFailed(s) == s = NoResponse \/ s >= 400

-----------------------------------------------------------------------------
(* Request headers *)

\* the headers queued for the next request, in the order they were added
NoHeaders == << >>

\* web_add_header(name, value): queued for the next request only (the
\* request takes the queued headers with it); the value is evaluated
\* against the parameter store
web_add_header(hs, store, name, value) ==
    Append(hs, [name |-> name, value |-> lr_eval_string(store, value)])

\* mutant: the queued headers stay queued after a request, as headers
\* added with web_add_auto_header would
AfterRequestKept(hs) == hs

\* the queue after web_custom_request sent a request with the headers hs:
\* headers added with web_add_header go with one request only
AfterRequest(hs) == NoHeaders

\* the names of the headers hs
HeaderNames(hs) == {hs[i].name : i \in DOMAIN hs}

\* the values the headers hs carry under name
HeaderValues(hs, name) == {hs[i].value : i \in {j \in DOMAIN hs : hs[j].name = name}}

\* the header names of the web_revert_auto_header calls after a step
RevertedHeaders ==
    << "x-dynatrace-test", "x-correlation-id", "x-customer-id", "x-session-id",
       "x-trace-id", "x-step-name", "x-customer-segment", "x-traffic-source",
       "x-test-iteration" >>

\* web_revert_auto_header for each of names: these names are released
web_revert_auto_header(names) == {names[i] : i \in DOMAIN names}

\* the cookie jar after the response s to request name: a response may set
\* a cookie (c), no response sets none
ReceiveCookies(jar, name, s, c) ==
    IF s # NoResponse /\ c THEN jar \cup {name} ELSE jar

\* web_cleanup_cookies(): the jar is emptied
web_cleanup_cookies(jar) == {}

-----------------------------------------------------------------------------
(* Identifier formats of Action *)

\* sprintf(correlation_id, "LR_<LTN>_%d_%d_%d", vuser_id, iteration, (int)time(NULL))
FormatCorrelationId(vuser_id, iter, t) ==
    << script.corrFormat >> \o FormatInt(vuser_id) \o << "_" >>
        \o FormatInt(iter) \o << "_" >> \o FormatInt(t)

\* mutant: the customer id leaves out the Vuser id
FormatCustomerIdNoVuser(vuser_id, iter, t) ==
    << "customer_" >> \o FormatInt(iter) \o << "_" >> \o FormatInt(t % 10000)

\* sprintf(customer_id, "customer_%d_%d_%d", vuser_id, iteration, (int)time(NULL) % 10000)
FormatCustomerId(vuser_id, iter, t) ==
    << "customer_" >> \o FormatInt(vuser_id) \o << "_" >>
        \o FormatInt(iter) \o << "_" >> \o FormatInt(t % 10000)

\* mutant: the session id leaves out the iteration number
FormatSessionIdNoIteration(vuser_id, iter) ==
    << script.sessFormat >> \o FormatInt(vuser_id)

\* sprintf(session_id, "session_<LSN>_%d_%d", vuser_id, iteration)
FormatSessionId(vuser_id, iter) ==
    << script.sessFormat >> \o FormatInt(vuser_id) \o << "_" >> \o FormatInt(iter)

\* sprintf(trace_id, "trace_%s_%d", correlation_id, (int)time(NULL))
FormatTraceId(corr, t) ==
    << "trace_" >> \o corr \o << "_" >> \o FormatInt(t)

\* mutant: the tracing header takes the labels saved by vuser_init
FormatDtTestHeaderInitLabels(tsn, lsn, ltn, vuser_id, cid) ==
    << "TSN=", tsn, ";LSN=", script.initLSN, ";LTN=", script.initLTN, ";VU=" >>
        \o FormatInt(vuser_id)
        \o << ";SI=", "LoadRunner", ";PC=", "BizObs-Demo", ";AN=", script.company,
              ";CID=", cid >>

\* mutant: the format lists LSN before TSN
FormatDtTestHeaderLsnFirst(tsn, lsn, ltn, vuser_id, cid) ==
    << "LSN=", lsn, ";TSN=", tsn, ";LTN=", ltn, ";VU=" >> \o FormatInt(vuser_id)
        \o << ";SI=", "LoadRunner", ";PC=", "BizObs-Demo", ";AN=", script.company,
              ";CID=", cid >>

\* sprintf(dt_test_header, "TSN=%s;LSN=%s;LTN=%s;VU=%d;SI=...;PC=...;AN=<company>;CID=%s", ...)
FormatDtTestHeader(tsn, lsn, ltn, vuser_id, cid) ==
    << "TSN=", tsn, ";LSN=", lsn, ";LTN=", ltn, ";VU=" >> \o FormatInt(vuser_id)
        \o << ";SI=", "LoadRunner", ";PC=", "BizObs-Demo", ";AN=", script.company,
              ";CID=", cid >>

-----------------------------------------------------------------------------
(* Initial state: no Vuser has run vuser_init yet; globals are zeroed *)

\* the replay settings of a Vuser before the script makes any
DefaultSettings ==
    [max_html_param_len |-> "256", max_retries |-> "0",
     timeout |-> [Receive |-> 120], user_agent |-> ""]

web_set_max_html_param_len(st, len) == [st EXCEPT !.max_html_param_len = len]

web_set_max_retries(st, n) == [st EXCEPT !.max_retries = n]

web_set_timeout(st, what, secs) == [st EXCEPT !.timeout[what] = secs]

web_set_user_agent(st, agent) == [st EXCEPT !.user_agent = agent]

\* mutant: the receive timeout is left at its default
TransportSettingsNoTimeout(st) ==
    LET s1 == web_set_max_html_param_len(st, "1024000")
        s2 == web_set_max_retries(s1, "3")
    IN  web_set_user_agent(s2, "LoadRunner-BizObs-Agent/1.0")

\* the four web_set_ calls of vuser_init
TransportSettings(st) ==
    LET s1 == web_set_max_html_param_len(st, "1024000")
        s2 == web_set_max_retries(s1, "3")
        s3 == web_set_timeout(s2, "Receive", 30)
    IN  web_set_user_agent(s3, "LoadRunner-BizObs-Agent/1.0")

EmptyBuf ==
    [dt_test_header |-> << >>, correlation_id |-> << >>, customer_id |-> << >>,
     session_id |-> << >>, trace_id |-> << >>]

\* char correlation_id[64], customer_id[64], session_id[64], trace_id[64]
IdBufferSize == 64

RECURSIVE StrLen(_)
\* strlen: the number of characters of a string kept as a sequence of chunks
StrLen(s) == IF s = << >> THEN 0 ELSE Len(Head(s)) + StrLen(Tail(s))

\* the globals after sprintf(trace_id, ...), b holding the characters it was
\* given to write: a text that does not fit with its terminator is written
\* past the end of trace_id, which is undefined; of what the build can make
\* of it, either nothing the script reads is hit or the terminator lands on
\* the first byte of the global laid out after trace_id and empties it
AfterTraceIdWritten(b) ==
    IF StrLen(b.trace_id) < IdBufferSize
        THEN {b}
        ELSE {b} \cup {[b EXCEPT ![f] = << >>] :
                          f \in {"dt_test_header", "correlation_id",
                                  "customer_id", "session_id"}}

\* the tally of the submitted results: nothing submitted yet
NoResults == << >>

\* a run of one of the scripts ss by one of the Vuser sets vs, each Vuser to
\* run one of the iteration counts ns, rand() producing one of the streams
\* rs for each Vuser, the requests getting one of the answers ts,
\* the clock showing the seconds cs
ConfiguredRun(ss, vs, ns, rs, ts, cs) ==
    /\ script \in ss
    /\ iterations \in ns
    /\ run = "startup"
    /\ results = NoResults
    /\ vusers \in vs
    /\ rng \in [vusers -> rs]
    /\ target = ts
    /\ clock = cs
    /\ now = StartTime
    /\ pc = [w \in vusers |-> "init"]
    /\ step = [w \in vusers |-> 0]
    /\ iteration = [w \in vusers |-> 0]
    /\ buf = [w \in vusers |-> EmptyBuf]
    /\ params = [w \in vusers |-> EmptyStore]
    /\ settings = [w \in vusers |-> DefaultSettings]
    /\ headers = [w \in vusers |-> NoHeaders]
    /\ cookies = [w \in vusers |-> {}]
    /\ reverted = [w \in vusers |-> {}]
    /\ open = [w \in vusers |-> << >>]
    /\ trace = [w \in vusers |-> << >>]
    /\ requests = [w \in vusers |-> << >>]
    /\ response = [w \in vusers |-> NoResponse]
    /\ issued = << >>

\* a run as scheduled: every Vuser runs MaxIteration iterations
RunInit(ss, vs, rs, ts, cs) == ConfiguredRun(ss, vs, {MaxIteration}, rs, ts, cs)

\* runs of a single Vuser, of any of the scripts, and runs with an invalid
\* configuration: no Vuser, no iteration, a malformed journey
Init ==
    ConfiguredRun(Scripts \cup Malformed, {{w} : w \in VuserIds} \cup {{}},
                  {0, MaxIteration}, RandStreams, HttpStatuses \cup {NoResponse},
                  OneLongTick)

\* runs of a single Vuser of a two-step or a six-step script, during which
\* the clock advances twice
InitTimed ==
    RunInit({ArgosTwo, BtSix}, {{w} : w \in VuserIds}, {<<32767, 11, 15>>},
            UpOrDown \cup {NoResponse}, ClockValues)

\* runs of all the Vusers together, srand(time(NULL) + lr_get_vuser_id())
\* having seeded them differently: no two get the same rand() stream
InitConcurrent ==
    /\ RunInit({ArgosTwo}, {VuserIds}, RandStreams, Up, OneLongTick)
    /\ \A a \in vusers : \A b \in vusers :
          a < b => rng[a] = <<0, 0, 0>> /\ rng[b] = <<32767, 11, 15>>

\* mutant: the Vusers of a run share one copy of the globals
GlobalsShared(w) == CHOOSE v \in vusers : \A u \in vusers : v <= u

\* the copy of the script's globals the code of Vuser w reads and writes:
\* every Vuser has a copy of its own
Globals(w) == w

-----------------------------------------------------------------------------
(* The wall clock advances *)

Tick ==
    /\ \E t \in clock : t > now /\ now' = t
    /\ UNCHANGED <<script, iterations, run, results, vusers, rng, target,
                   clock, settings, pc, step, iteration, buf, params,
                   headers, cookies, reverted, open, trace, requests,
                   response, issued>>

-----------------------------------------------------------------------------
(* The run: start, result tally, stop *)

\* a journey definition is well formed when it has steps and its steps are
\* numbered 1, 2, ... in their order
WellFormed(j) ==
    /\ Len(j.steps) >= 1
    /\ \A i \in DOMAIN j.steps : j.steps[i].stepNumber = i

\* mutant: only the journey definition is validated
ValidConfigurationJourneyOnly == WellFormed(script)

\* the configuration of the run is valid: at least one Vuser, at least one
\* iteration, a well-formed journey
ValidConfiguration ==
    /\ Cardinality(vusers) >= 1
    /\ iterations >= 1
    /\ WellFormed(script)

\* the start of the run: the configuration is validated; an invalid one is
\* fatal, the run is rejected and no Vuser is started
StartRun ==
    /\ run = "startup"
    /\ run' = IF ValidConfiguration THEN "running" ELSE "rejected"
    /\ UNCHANGED <<script, iterations, results, vusers, rng, target, clock,
                   settings, now, pc, step, iteration, buf, params, headers,
                   cookies, reverted, open, trace, requests, response,
                   issued>>

\* the tally after one more result with key k has been submitted
Submit(agg, k) ==
    [x \in DOMAIN agg \cup {k} |->
        IF x \in DOMAIN agg
            THEN (IF x = k THEN agg[x] + 1 ELSE agg[x])
            ELSE 1]

\* lr_end_transaction reports the transaction it ended as a result of
\* iteration i of Vuser w; an end call that ended nothing reports none
Record(agg, w, i, e) ==
    IF e.ev = "end" THEN Submit(agg, << w, i, e.name >>) ELSE agg

\* the moments at which the run may be stopped: while a request of one of
\* these steps << iteration, step >> is in flight
StopPoints == {<< 1, 2 >>, << 2, 1 >>}

\* mutant: the transactions open at the stop are submitted as results
AbandonAsResults(agg, w, i, op) ==
    LET names == DOMAIN op
    IN  [x \in DOMAIN agg \cup {<< w, i, n >> : n \in names} |->
            IF x \in DOMAIN agg THEN agg[x] ELSE 1]

\* what the tally keeps of the transactions op that iteration i of Vuser w
\* had open when the run was stopped: nothing, they are discarded
Abandon(agg, w, i, op) == agg

RECURSIVE AbandonAll(_, _)
\* the tally after the open transactions of the Vusers ws are abandoned
AbandonAll(agg, ws) ==
    IF ws = {} THEN agg
    ELSE LET w == CHOOSE x \in ws : TRUE
         IN  AbandonAll(Abandon(agg, w, iteration[w], open[w]), ws \ {w})

\* the stop signal of the run, raised while a step request is in flight:
\* every Vuser that has not finished is stopped where it is, its request
\* or pause is aborted, its open transactions are abandoned
Stop ==
    /\ run = "running"
    /\ \E w \in vusers :
          pc[w] = "step_wait" /\ << iteration[w], step[w] >> \in StopPoints
    /\ run' = "stopped"
    /\ pc' = [w \in vusers |-> IF pc[w] = "done" THEN "done" ELSE "stopped"]
    /\ results' = AbandonAll(results, vusers)
    /\ open' = [w \in vusers |-> << >>]
    /\ UNCHANGED <<script, iterations, vusers, rng, target, clock, settings,
                   now, step, iteration, buf, params, headers, cookies,
                   reverted, trace, requests, response, issued>>

-----------------------------------------------------------------------------
(* vuser_init *)

\* mutant: the email is taken at an index drawn on its own
InitParamsEmailOwnDraw(rs) ==
    LET customer_index == rs[1] % 16
        p1 == lr_save_string(EmptyStore, << script.initLSN >>, "LSN")
        p2 == lr_save_string(p1, << script.initLTN >>, "LTN")
        p3 == lr_save_string(p2, << At(customer_names, customer_index) >>, "customer_name")
        p4 == lr_save_string(p3, << At(customer_emails, rs[2] % 16) >>, "customer_email")
        p5 == lr_save_string(p4, << At(customer_segments, rs[2] % 6) >>, "customer_segment")
    IN  lr_save_string(p5, << At(traffic_sources, rs[3] % 8) >>, "traffic_source")

\* the parameter store vuser_init leaves, rs being the values rand() returns
InitParams(rs) ==
    LET customer_index == rs[1] % 16
        p1 == lr_save_string(EmptyStore, << script.initLSN >>, "LSN")
        p2 == lr_save_string(p1, << script.initLTN >>, "LTN")
        p3 == lr_save_string(p2, << At(customer_names, customer_index) >>, "customer_name")
        p4 == lr_save_string(p3, << At(customer_emails, customer_index) >>, "customer_email")
        p5 == lr_save_string(p4, << At(customer_segments, rs[2] % 6) >>, "customer_segment")
    IN  lr_save_string(p5, << At(traffic_sources, rs[3] % 8) >>, "traffic_source")

vuser_init(w) ==
    /\ run = "running"
    /\ pc[w] = "init"
    /\ params' = [params EXCEPT ![w] = InitParams(rng[w])]
    /\ settings' = [settings EXCEPT ![w] = TransportSettings(@)]
    /\ iteration' = [iteration EXCEPT ![w] = 1]
    /\ pc' = [pc EXCEPT ![w] = "gen_correlation"]
    /\ UNCHANGED <<script, iterations, run, results, vusers, rng, target,
                   clock, now, step, buf, headers, cookies, reverted, open,
                   trace, requests, response, issued>>

-----------------------------------------------------------------------------
(* Action: identifier refresh *)

\* Action, up to lr_save_string(correlation_id, "correlation_id"):
\* first time(NULL) read
GenCorrelationId(w) ==
    /\ pc[w] = "gen_correlation"
    /\ LET cid == FormatCorrelationId(w, iteration[w], now)
       IN  /\ buf' = [buf EXCEPT ![Globals(w)].correlation_id = cid]
           /\ params' = [params EXCEPT ![w] = lr_save_string(@, cid, "correlation_id")]
    /\ trace' = [trace EXCEPT ![w] = << >>]
    /\ requests' = [requests EXCEPT ![w] = << >>]
    /\ response' = [response EXCEPT ![w] = NoResponse]
    /\ pc' = [pc EXCEPT ![w] = "gen_customer"]
    /\ UNCHANGED <<script, iterations, run, results, vusers, rng, target,
                   clock, settings, now, step, iteration, headers, cookies,
                   reverted, open, issued>>

\* mutant: the customer id is formatted in the first iteration only and
\* kept afterwards
GenCustomerIdKeepsFirst(w) ==
    /\ pc[w] = "gen_customer"
    /\ buf' = [buf EXCEPT ![Globals(w)].customer_id =
                  IF @ = << >> THEN FormatCustomerId(w, iteration[w], now) ELSE @]
    /\ pc' = [pc EXCEPT ![w] = "gen_trace"]
    /\ UNCHANGED <<script, iterations, run, results, vusers, rng, target,
                   clock, settings, now, step, iteration, params, headers,
                   cookies, reverted, open, trace, requests, response,
                   issued>>

\* sprintf(customer_id, ...): second time(NULL) read
GenCustomerId(w) ==
    /\ pc[w] = "gen_customer"
    /\ buf' = [buf EXCEPT ![Globals(w)].customer_id = FormatCustomerId(w, iteration[w], now)]
    /\ pc' = [pc EXCEPT ![w] = "gen_trace"]
    /\ UNCHANGED <<script, iterations, run, results, vusers, rng, target,
                   clock, settings, now, step, iteration, params, headers,
                   cookies, reverted, open, trace, requests, response,
                   issued>>

\* mutant: trace_id is formatted but never saved as a parameter
ActionParamsNoTrace(store, b) ==
    LET p1 == lr_save_string(store, b.customer_id, "customer_id")
        p2 == lr_save_string(p1, b.session_id, "session_id")
        p4 == lr_save_string(p2, << script.LSN >>, "LSN")
    IN  lr_save_string(p4, << script.LTN >>, "LTN")

\* the parameter store after the lr_save_string calls that follow the sprintfs
ActionParams(store, b) ==
    LET p1 == lr_save_string(store, b.customer_id, "customer_id")
        p2 == lr_save_string(p1, b.session_id, "session_id")
        p3 == lr_save_string(p2, b.trace_id, "trace_id")
        p4 == lr_save_string(p3, << script.LSN >>, "LSN")
    IN  lr_save_string(p4, << script.LTN >>, "LTN")

\* the four identifiers the sprintf calls of an iteration wrote
Identifiers(b) ==
    [correlationId |-> b.correlation_id, customerId |-> b.customer_id,
     sessionId |-> b.session_id, traceId |-> b.trace_id]

\* lr_start_transaction("Full_Customer_Journey")
JourneyStartName == "Full_Customer_Journey"

\* mutant: the journey transaction is ended under another name than it
\* was started with
JourneyEndNameMismatch == "Customer_Journey"

\* lr_end_transaction("Full_Customer_Journey", LR_AUTO)
JourneyEndName == "Full_Customer_Journey"

\* sprintf(session_id, ...), sprintf(trace_id, ...) with the third
\* time(NULL) read, the parameter saves, and
\* lr_start_transaction("Full_Customer_Journey")
GenTraceId(w) ==
    /\ pc[w] = "gen_trace"
    /\ \E b \in AfterTraceIdWritten(
                  [buf[Globals(w)] EXCEPT
                      !.session_id = FormatSessionId(w, iteration[w]),
                      !.trace_id = FormatTraceId(buf[Globals(w)].correlation_id, now)]) :
       LET p == ActionParams(params[w], b)
       IN  /\ buf' = [buf EXCEPT ![Globals(w)] = b]
           /\ params' = [params EXCEPT ![w] = p]
           /\ issued' = [k \in DOMAIN issued \cup {<<w, iteration[w]>>} |->
                            IF k = <<w, iteration[w]>> THEN Identifiers(b)
                                                       ELSE issued[k]]
    /\ open' = [open EXCEPT ![w] = lr_start_transaction(@, JourneyStartName, now)]
    /\ trace' = [trace EXCEPT ![w] =
                    Append(@, Event("start", JourneyStartName, "-", 0))]
    /\ step' = [step EXCEPT ![w] = 1]
    /\ pc' = [pc EXCEPT ![w] = "step_begin"]
    /\ UNCHANGED <<script, iterations, run, results, vusers, rng, target,
                   clock, settings, now, iteration, headers, cookies,
                   reverted, requests, response>>

-----------------------------------------------------------------------------
(* Action: one step *)

\* mutant: the blocks of the steps after the first leave out User-Agent
\* and Content-Type
StepHeadersFirstOnly(h0, store, sd, dt) ==
    LET h1  == web_add_header(h0, store, "X-dynaTrace", dt)
        h2  == web_add_header(h1, store, "x-correlation-id", << "{correlation_id}" >>)
        h3  == web_add_header(h2, store, "x-customer-id", << "{customer_id}" >>)
        h4  == web_add_header(h3, store, "x-session-id", << "{session_id}" >>)
        h5  == web_add_header(h4, store, "x-trace-id", << "{trace_id}" >>)
        h6  == web_add_header(h5, store, "x-step-name", << sd.stepName >>)
        h7  == web_add_header(h6, store, "x-service-name", << sd.serviceName >>)
        h8  == web_add_header(h7, store, "x-customer-segment", << "{customer_segment}" >>)
        h9  == web_add_header(h8, store, "x-traffic-source", << "{traffic_source}" >>)
        h10 == web_add_header(h9, store, "x-test-iteration",
                              lr_eval_string(store, << "{pIteration}" >>))
        h11 == web_add_header(h10, store, "Content-Type", << "application/json" >>)
    IN  IF sd.stepNumber = 1
            THEN web_add_header(h11, store, "User-Agent", << "LoadRunner-BizObs-Agent/1.0" >>)
            ELSE h10

\* the twelve web_add_header calls of a step, h0 being the headers queued
\* before them
StepHeaders(h0, store, sd, dt) ==
    LET h1  == web_add_header(h0, store, "X-dynaTrace", dt)
        h2  == web_add_header(h1, store, "x-correlation-id", << "{correlation_id}" >>)
        h3  == web_add_header(h2, store, "x-customer-id", << "{customer_id}" >>)
        h4  == web_add_header(h3, store, "x-session-id", << "{session_id}" >>)
        h5  == web_add_header(h4, store, "x-trace-id", << "{trace_id}" >>)
        h6  == web_add_header(h5, store, "x-step-name", << sd.stepName >>)
        h7  == web_add_header(h6, store, "x-service-name", << sd.serviceName >>)
        h8  == web_add_header(h7, store, "x-customer-segment", << "{customer_segment}" >>)
        h9  == web_add_header(h8, store, "x-traffic-source", << "{traffic_source}" >>)
        h10 == web_add_header(h9, store, "x-test-iteration",
                              lr_eval_string(store, << "{pIteration}" >>))
        h11 == web_add_header(h10, store, "Content-Type", << "application/json" >>)
    IN  web_add_header(h11, store, "User-Agent", << "LoadRunner-BizObs-Agent/1.0" >>)

\* as StepBody, with the entry of the first step in the body of every step
StepBodyFirstStep(store, sd) ==
    [journeyId     |-> lr_eval_string(store, << "{correlation_id}" >>),
     customerId    |-> lr_eval_string(store, << "{customer_id}" >>),
     sessionId     |-> lr_eval_string(store, << "{session_id}" >>),
     traceId       |-> lr_eval_string(store, << "{trace_id}" >>),
     chained       |-> TRUE,
     thinkTimeMs   |-> 250,
     errorSimulationEnabled |-> script.errorSimulationEnabled,
     companyName   |-> script.company,
     domain        |-> script.domain,
     steps         |-> << [stepNumber |-> script.steps[1].stepNumber, stepName |-> script.steps[1].stepName,
                           serviceName |-> script.steps[1].serviceName,
                           estimatedDuration |-> sd.estimatedDuration] >>,
     customerProfile |->
        [name    |-> lr_eval_string(store, << "{customer_name}" >>),
         email   |-> lr_eval_string(store, << "{customer_email}" >>),
         segment |-> lr_eval_string(store, << "{customer_segment}" >>),
         userId  |-> lr_eval_string(store, << "{customer_id}" >>),
         deviceType |-> "desktop", location |-> "US-East"]]

\* the JSON body of a step request, parameters evaluated
StepBody(store, sd) ==
    [journeyId     |-> lr_eval_string(store, << "{correlation_id}" >>),
     customerId    |-> lr_eval_string(store, << "{customer_id}" >>),
     sessionId     |-> lr_eval_string(store, << "{session_id}" >>),
     traceId       |-> lr_eval_string(store, << "{trace_id}" >>),
     chained       |-> TRUE,
     thinkTimeMs   |-> 250,
     errorSimulationEnabled |-> script.errorSimulationEnabled,
     companyName   |-> script.company,
     domain        |-> script.domain,
     steps         |-> << [stepNumber |-> sd.stepNumber, stepName |-> sd.stepName,
                           serviceName |-> sd.serviceName,
                           estimatedDuration |-> sd.estimatedDuration] >>,
     customerProfile |->
        [name    |-> lr_eval_string(store, << "{customer_name}" >>),
         email   |-> lr_eval_string(store, << "{customer_email}" >>),
         segment |-> lr_eval_string(store, << "{customer_segment}" >>),
         userId  |-> lr_eval_string(store, << "{customer_id}" >>),
         deviceType |-> "desktop", location |-> "US-East"]]

\* a sent request: the headers queued for it and its body
Request(name, hs, body) == [name |-> name, headers |-> hs, body |-> body]

\* from lr_save_string(<step>, "TSN") to web_custom_request("<step>_Journey_Step"):
\* the request of the current step is sent
StepSend(w) ==
    /\ pc[w] = "step_begin"
    /\ LET sd == script.steps[step[w]]
           p  == lr_save_string(params[w], << sd.stepName >>, "TSN")
           dt == FormatDtTestHeader(sd.stepName, script.LSN, script.LTN, w,
                                    "{correlation_id}")
           hs == StepHeaders(headers[w], p, sd, dt)
       IN  /\ params' = [params EXCEPT ![w] = p]
           /\ buf' = [buf EXCEPT ![Globals(w)].dt_test_header = dt]
           /\ open' = [open EXCEPT ![w] = lr_start_transaction(@, sd.stepName, now)]
           /\ trace' = [trace EXCEPT ![w] =
                           @ \o << Event("start", sd.stepName, "-", 0),
                                   Event("request", sd.stepName \o "_Journey_Step", "-", 0) >>]
           /\ requests' = [requests EXCEPT ![w] =
                              Append(@, Request(sd.stepName \o "_Journey_Step", hs,
                                                StepBody(p, sd)))]
           /\ headers' = [headers EXCEPT ![w] = AfterRequest(hs)]
    /\ UNCHANGED <<cookies, reverted>>
    /\ response' = [response EXCEPT ![w] = NoResponse]
    /\ pc' = [pc EXCEPT ![w] = "step_wait"]
    /\ UNCHANGED <<script, iterations, run, results, vusers, rng, target,
                   clock, settings, now, step, iteration, issued>>

\* if (atoi(lr_eval_string("{status}")) >= 400) ... LR_FAIL else ... LR_PASS
Classify(store) ==
    IF atoi(lr_eval_string(store, << "{status}" >>)) >= 400 THEN "LR_FAIL"
                                                           ELSE "LR_PASS"

\* mutant: a failed request makes Action skip the remaining steps
AfterStepSkipsRest(s, st) == IF RequestFailed(s) THEN "journey_end" ELSE "think"

\* mutant: a failed request makes Action stop for good (as lr_abort would)
AfterStepAborts(s, st) == IF RequestFailed(s) THEN "aborted" ELSE "think"

\* where Action goes on after the request returned s and the step was ended
\* with st: the return value of web_custom_request is not looked at and both
\* branches of the if/else fall through to the clean-up and to lr_think_time
AfterStep(s, st) == "think"

\* mutant: no pause after a step whose request failed
ThinkTimeByOutcome(sd, s) == IF RequestFailed(s) THEN 0 ELSE sd.thinkTime

\* lr_think_time(<literal>): the pause after step sd, its request having
\* returned s
ThinkTime(sd, s) == sd.thinkTime

\* web_custom_request returns with status s (NoResponse: no answer); then
\* the classification, the cookie and header clean-up,
\* lr_end_transaction("{TSN}", LR_AUTO) and the call of lr_think_time
StepReceive(w) ==
    /\ pc[w] = "step_wait"
    /\ \E s \in target : \E c \in BOOLEAN :
        LET sd  == script.steps[step[w]]
            jar == ReceiveCookies(cookies[w], sd.stepName \o "_Journey_Step", s, c)
            o1  == IF RequestFailed(s) THEN MarkFailed(open[w]) ELSE open[w]
            st  == Classify(params[w])
            e1  == EndEvent(o1, sd.stepName, st, now)
            o2  == lr_end_transaction(o1, sd.stepName, st)
            e2  == EndEvent(o2, "{TSN}", "LR_AUTO", now)
            o3  == lr_end_transaction(o2, "{TSN}", "LR_AUTO")
        IN  /\ response' = [response EXCEPT ![w] = s]
            /\ cookies' = [cookies EXCEPT ![w] = web_cleanup_cookies(jar)]
            /\ reverted' = [reverted EXCEPT ![w] = web_revert_auto_header(RevertedHeaders)]
            /\ open' = [open EXCEPT ![w] = lr_think_time(o3, now)]
            /\ trace' = [trace EXCEPT ![w] =
                            @ \o << e1, e2, Event("think", sd.stepName, "-", ThinkTime(sd, s)) >>]
            /\ pc' = [pc EXCEPT ![w] = AfterStep(s, st)]
            /\ results' = Record(Record(results, w, iteration[w], e1),
                                  w, iteration[w], e2)
    /\ UNCHANGED <<script, iterations, run, vusers, rng, target, clock,
                   settings, now, step, iteration, buf, params, headers,
                   requests, issued>>

\* lr_think_time returns: on to the next step, or to the end of the journey
ThinkDone(w) ==
    /\ pc[w] = "think"
    /\ IF step[w] < NumSteps
          THEN /\ step' = [step EXCEPT ![w] = @ + 1]
               /\ pc' = [pc EXCEPT ![w] = "step_begin"]
          ELSE /\ step' = [step EXCEPT ![w] = 0]
               /\ pc' = [pc EXCEPT ![w] = "journey_end"]
    /\ response' = [response EXCEPT ![w] = NoResponse]
    /\ open' = [open EXCEPT ![w] = ThinkTimeOver(@, now)]
    /\ UNCHANGED <<script, iterations, run, results, vusers, rng, target,
                   clock, settings, now, iteration, buf, params, headers,
                   cookies, reverted, trace, requests, issued>>

-----------------------------------------------------------------------------
(* Action: end of the journey and completion event *)

\* the three web_add_header calls before the completion event, h0 being
\* the headers queued before them
CompletionHeaders(h0, store, dt) ==
    LET h1 == web_add_header(h0, store, "x-dynatrace-test", dt)
        h2 == web_add_header(h1, store, "x-correlation-id", << "{correlation_id}" >>)
    IN  web_add_header(h2, store, "Content-Type", << "application/json" >>)

\* the JSON body of the completion event
CompletionBody(store) ==
    [eventType       |-> "journey_completed",
     correlationId   |-> lr_eval_string(store, << "{correlation_id}" >>),
     customerId      |-> lr_eval_string(store, << "{customer_id}" >>),
     companyName     |-> script.company,
     customerName    |-> lr_eval_string(store, << "{customer_name}" >>),
     customerSegment |-> lr_eval_string(store, << "{customer_segment}" >>),
     totalSteps      |-> script.totalSteps,
     loadTest        |-> TRUE,
     completionTime  |-> lr_eval_string(store, << "{TimeNow}" >>)]

\* mutant: the completion event is sent while the journey transaction is
\* still open
JourneyEndAfterEvent(w) ==
    /\ pc[w] = "journey_end"
    /\ trace' = [trace EXCEPT ![w] =
                    Append(@, Event("request", "Journey_Completion_Event", "-", 0))]
    /\ requests' = [requests EXCEPT ![w] =
                       Append(@, Request("Journey_Completion_Event",
                                         CompletionHeaders(headers[w], params[w],
                                             buf[Globals(w)].dt_test_header),
                                         CompletionBody(params[w])))]
    /\ headers' = [headers EXCEPT ![w] =
                      AfterRequest(CompletionHeaders(headers[w], params[w],
                                       buf[Globals(w)].dt_test_header))]
    /\ UNCHANGED <<cookies, reverted>>
    /\ response' = [response EXCEPT ![w] = NoResponse]
    /\ pc' = [pc EXCEPT ![w] = "completion_wait"]
    /\ UNCHANGED <<script, iterations, run, results, vusers, rng, target,
                   clock, settings, now, step, iteration, buf, params, open,
                   issued>>

\* mutant: Action returns after the end of the journey transaction, without
\* sending the completion event
JourneyEndReturns(w) ==
    /\ pc[w] = "journey_end"
    /\ open' = [open EXCEPT ![w] =
                   lr_end_transaction(@, JourneyEndName, "LR_AUTO")]
    /\ trace' = [trace EXCEPT ![w] =
                    @ \o << EndEvent(open[w], JourneyEndName, "LR_AUTO", now),
                            Event("return", "Action", "-", 0) >>]
    /\ results' = Record(results, w, iteration[w],
                          EndEvent(open[w], JourneyEndName, "LR_AUTO", now))
    /\ IF iteration[w] < iterations
          THEN /\ iteration' = [iteration EXCEPT ![w] = @ + 1]
               /\ pc' = [pc EXCEPT ![w] = "gen_correlation"]
          ELSE /\ iteration' = iteration
               /\ pc' = [pc EXCEPT ![w] = "done"]
    /\ UNCHANGED <<script, iterations, run, vusers, rng, target, clock,
                   settings, now, step, buf, params, headers, cookies,
                   reverted, requests, response, issued>>

\* lr_end_transaction("Full_Customer_Journey", LR_AUTO), then
\* web_custom_request("Journey_Completion_Event") is sent
JourneyEnd(w) ==
    /\ pc[w] = "journey_end"
    /\ open' = [open EXCEPT ![w] =
                   lr_end_transaction(@, JourneyEndName, "LR_AUTO")]
    /\ trace' = [trace EXCEPT ![w] =
                    @ \o << EndEvent(open[w], JourneyEndName, "LR_AUTO", now),
                            Event("request", "Journey_Completion_Event", "-", 0) >>]
    /\ requests' = [requests EXCEPT ![w] =
                       Append(@, Request("Journey_Completion_Event",
                                         CompletionHeaders(headers[w], params[w],
                                             buf[Globals(w)].dt_test_header),
                                         CompletionBody(params[w])))]
    /\ headers' = [headers EXCEPT ![w] =
                      AfterRequest(CompletionHeaders(headers[w], params[w],
                                       buf[Globals(w)].dt_test_header))]
    /\ UNCHANGED <<cookies, reverted>>
    /\ response' = [response EXCEPT ![w] = NoResponse]
    /\ pc' = [pc EXCEPT ![w] = "completion_wait"]
    /\ results' = Record(results, w, iteration[w],
                          EndEvent(open[w], JourneyEndName, "LR_AUTO", now))
    /\ UNCHANGED <<script, iterations, run, vusers, rng, target, clock,
                   settings, now, step, iteration, buf, params, issued>>

\* the completion event's web_custom_request returns, Action returns 0:
\* the next iteration starts, or vuser_end runs after the last one
CompletionReceive(w) ==
    /\ pc[w] = "completion_wait"
    /\ \E s \in target : \E c \in BOOLEAN :
        /\ response' = [response EXCEPT ![w] = s]
        /\ cookies' = [cookies EXCEPT ![w] =
                          ReceiveCookies(@, "Journey_Completion_Event", s, c)]
        /\ open' = [open EXCEPT ![w] =
                       IF RequestFailed(s) THEN MarkFailed(@) ELSE @]
    /\ trace' = [trace EXCEPT ![w] = Append(@, Event("return", "Action", "-", 0))]
    /\ IF iteration[w] < iterations
          THEN /\ iteration' = [iteration EXCEPT ![w] = @ + 1]
               /\ pc' = [pc EXCEPT ![w] = "gen_correlation"]
          ELSE /\ iteration' = iteration
               /\ pc' = [pc EXCEPT ![w] = "done"]
    /\ UNCHANGED <<script, iterations, run, results, vusers, rng, target,
                   clock, settings, now, step, buf, params, headers,
                   reverted, requests, issued>>

-----------------------------------------------------------------------------
(* Specification *)

Next ==
    \/ Tick
    \/ StartRun
    \/ Stop
    \/ \E w \in vusers : vuser_init(w)
    \/ \E w \in vusers : GenCorrelationId(w)
    \/ \E w \in vusers : GenCustomerId(w)
    \/ \E w \in vusers : GenTraceId(w)
    \/ \E w \in vusers : StepSend(w)
    \/ \E w \in vusers : StepReceive(w)
    \/ \E w \in vusers : ThinkDone(w)
    \/ \E w \in vusers : JourneyEnd(w)
    \/ \E w \in vusers : CompletionReceive(w)

Spec == Init /\ [][Next]_vars

ConcurrentSpec == InitConcurrent /\ [][Next]_vars

TimedSpec == InitTimed /\ [][Next]_vars

-----------------------------------------------------------------------------
(* Fairness: every Vuser is a thread of its own and keeps running; every   *)
(* web_custom_request returns, with a response or, after the receive       *)
(* timeout and the retries, without one; every lr_think_time returns       *)

VuserStep(w) ==
    /\ w \in vusers
    /\ \/ vuser_init(w)
       \/ GenCorrelationId(w)
       \/ GenCustomerId(w)
       \/ GenTraceId(w)
       \/ StepSend(w)
       \/ StepReceive(w)
       \/ ThinkDone(w)
       \/ JourneyEnd(w)
       \/ CompletionReceive(w)

\* runs of a single Vuser, of any of the scripts, with one rand() stream
InitFair ==
    RunInit(Scripts, {{w} : w \in VuserIds}, {<<32767, 11, 15>>},
            HttpStatuses \cup {NoResponse}, OneShortTick)

FairSpec ==
    InitFair /\ [][Next]_vars /\ \A w \in VuserIds : WF_vars(VuserStep(w))

-----------------------------------------------------------------------------
(* Views of the recorded iteration *)

\* the step requests among the requests of the recorded iteration
StepRequests(w) ==
    SelectSeq(requests[w], LAMBDA r : r.name # "Journey_Completion_Event")

\* the completion events among the requests of the recorded iteration
CompletionRequests(w) ==
    SelectSeq(requests[w], LAMBDA r : r.name = "Journey_Completion_Event")

\* the transactions ended in the recorded iteration, with their outcomes
EndEvents(w) == SelectSeq(trace[w], LAMBDA e : e.ev = "end")

\* the step transactions ended in the recorded iteration
StepEndEvents(w) ==
    SelectSeq(trace[w], LAMBDA e : e.ev = "end" /\ e.name # JourneyStartName)

\* the ends of the journey transaction in the recorded iteration
JourneyEndEvents(w) ==
    SelectSeq(trace[w], LAMBDA e : e.ev = "end" /\ e.name = JourneyStartName)

\* Action has returned for the recorded iteration
Returned(w) == trace[w] # << >> /\ trace[w][Len(trace[w])].ev = "return"

\* the Vuser is between the start of the journey transaction and the
\* return of Action
InJourney(w) ==
    pc[w] \in {"step_begin", "step_wait", "think", "journey_end", "completion_wait"}

-----------------------------------------------------------------------------
(* C1 *)

\* C1: in every iteration the step requests carry the step numbers
\* 1, 2, ..., n in this order, each once, whatever the earlier responses
\* were; all n have been issued when the journey transaction is ended.
StepsInOrder ==
    \A w \in vusers :
        /\ Len(StepRequests(w)) <= NumSteps
        /\ \A i \in 1..Len(StepRequests(w)) :
              /\ Len(StepRequests(w)[i].body.steps) = 1
              /\ StepRequests(w)[i].body.steps[1].stepNumber = i
        /\ (pc[w] \in {"journey_end", "completion_wait"} \/ Returned(w))
              => Len(StepRequests(w)) = NumSteps

\* an iteration that issued all its steps although a request of it failed
StepsInOrderWitness ==
    \E w \in vusers :
        /\ pc[w] = "completion_wait"
        /\ Len(StepRequests(w)) = NumSteps
        /\ NumSteps = 6
        /\ \E i \in 1..Len(JourneyEndEvents(w)) : JourneyEndEvents(w)[i].outcome = "Fail"

-----------------------------------------------------------------------------
(* C2 *)

\* C2: a step whose request was answered with HTTP status s is ended with
\* outcome Pass if s < 400 and with outcome Fail if s >= 400.
ClassifiedByStatus ==
    \A w \in vusers :
        (pc[w] = "think" /\ response[w] \in HttpStatuses) =>
            LET e == StepEndEvents(w)[Len(StepEndEvents(w))]
            IN  e.outcome = IF response[w] >= 400 THEN "Fail" ELSE "Pass"

-----------------------------------------------------------------------------
(* C3 *)

\* C3: the journey transaction of an iteration is ended with outcome Fail
\* if a step of the iteration was ended with Fail, with Pass if all steps
\* were ended with Pass.
JourneyOutcomeFromSteps ==
    \A w \in vusers :
        \A i \in 1..Len(JourneyEndEvents(w)) :
            JourneyEndEvents(w)[i].outcome =
                IF \E j \in 1..Len(StepEndEvents(w)) : StepEndEvents(w)[j].outcome = "Fail"
                    THEN "Fail" ELSE "Pass"

-----------------------------------------------------------------------------
(* C4 *)

\* iteration i of Vuser w has started
IterationStarted(w, i) ==
    w \in vusers /\ pc[w] = "gen_correlation" /\ iteration[w] = i

\* iteration i of Vuser w is over: Action returned after the completion
\* event was sent, and the Vuser went on to iteration i + 1 or to vuser_end
IterationOver(w, i) ==
    /\ w \in vusers
    /\ Returned(w)
    /\ requests[w][Len(requests[w])].name = "Journey_Completion_Event"
    /\ \/ pc[w] = "gen_correlation" /\ iteration[w] = i + 1
       \/ pc[w] = "done" /\ iteration[w] = i

\* C4: every iteration that starts reaches its end, after the completion
\* event, whatever the responses of its steps were, unless the run is
\* stopped; failed steps abort neither the iteration nor the following ones
\* nor the Vuser.
IterationTerminates ==
    \A w \in VuserIds : \A i \in 1..MaxIteration :
        IterationStarted(w, i) ~> (IterationOver(w, i) \/ run = "stopped")

\* a second iteration reached after a first one in which a request failed
IterationTerminatesWitness ==
    \E w \in vusers :
        /\ pc[w] = "gen_correlation"
        /\ iteration[w] = 2
        /\ Returned(w)
        /\ \E i \in 1..Len(JourneyEndEvents(w)) : JourneyEndEvents(w)[i].outcome = "Fail"

-----------------------------------------------------------------------------
(* C5 *)

\* C5: the completion event is sent once per iteration, after the last
\* step, and its totalSteps is the number of step requests of the iteration.
CompletionOnce ==
    \A w \in vusers :
        LET c == CompletionRequests(w)
        IN  /\ Len(c) <= 1
            /\ Len(c) = 1 =>
                  /\ requests[w][Len(requests[w])].name = "Journey_Completion_Event"
                  /\ Len(StepRequests(w)) = NumSteps
                  /\ c[1].body.totalSteps = Len(StepRequests(w))
            /\ pc[w] \in {"step_begin", "step_wait", "think", "journey_end"} => Len(c) = 0
            /\ (pc[w] = "completion_wait" \/ Returned(w)) => Len(c) = 1

\* a completed iteration of the two-step journey
CompletionOnceWitness ==
    \E w \in vusers :
        /\ Returned(w)
        /\ Len(CompletionRequests(w)) = 1
        /\ CompletionRequests(w)[1].body.totalSteps = 2

-----------------------------------------------------------------------------
(* C6 *)

\* C6: when the completion event's request returns, failed or not, the
\* outcomes recorded for the journey and step transactions stay as they
\* are, no transaction's status changes, and Action returns (or the run is
\* stopped).
CompletionFailureContained ==
    [][\A w \in vusers :
          pc[w] = "completion_wait" =>
              /\ EndEvents(w)' = EndEvents(w)
              /\ open'[w] = open[w]
              /\ pc'[w] \in {"completion_wait", "gen_correlation", "done",
                            "stopped"}]_vars

\* Action returned after a failed completion event, the journey being Pass
CompletionFailureWitness ==
    \E w \in vusers :
        /\ Returned(w)
        /\ RequestFailed(response[w])
        /\ Len(JourneyEndEvents(w)) = 1
        /\ JourneyEndEvents(w)[1].outcome = "Pass"

-----------------------------------------------------------------------------
(* C7 *)

\* positions in the recorded iteration where the journey transaction starts
JourneyStarts(w) ==
    {i \in DOMAIN trace[w] :
        trace[w][i].ev = "start" /\ trace[w][i].name = JourneyStartName}

\* positions in the recorded iteration where the journey transaction ends
JourneyEnds(w) ==
    {i \in DOMAIN trace[w] :
        trace[w][i].ev = "end" /\ trace[w][i].name = JourneyStartName}

\* positions where a step transaction starts (ev = "start") or ends ("end")
StepMarks(w, ev) ==
    {i \in DOMAIN trace[w] :
        trace[w][i].ev = ev /\ trace[w][i].name # JourneyStartName}

\* C7: every iteration starts and ends the journey transaction once, and
\* every step transaction starts after the journey's start and ends before
\* the journey's end.
JourneyEncloses ==
    \A w \in vusers :
        /\ Cardinality(JourneyStarts(w)) <= 1
        /\ Cardinality(JourneyEnds(w)) <= 1
        /\ (InJourney(w) \/ Returned(w)) => Cardinality(JourneyStarts(w)) = 1
        /\ (pc[w] = "completion_wait" \/ Returned(w)) => Cardinality(JourneyEnds(w)) = 1
        /\ \A i \in StepMarks(w, "start") \cup StepMarks(w, "end") :
              /\ \E j \in JourneyStarts(w) : j < i
              /\ \A j \in JourneyEnds(w) : i < j
        /\ JourneyEnds(w) # {} =>
              /\ Cardinality(StepMarks(w, "start")) = NumSteps
              /\ Cardinality(StepMarks(w, "end")) = NumSteps
        /\ DOMAIN open[w] # {} => JourneyStartName \in DOMAIN open[w]

\* an iteration of a six-step journey over, journey transaction ended
JourneyEnclosesWitness ==
    \E w \in vusers :
        /\ Returned(w)
        /\ Cardinality(JourneyEnds(w)) = 1
        /\ Cardinality(StepMarks(w, "end")) = 6

-----------------------------------------------------------------------------
(* C8 *)

\* the identifiers as requests see them: the values of the four parameters
ParamIdentifiers(w) ==
    [correlationId |-> lr_eval_string(params[w], << "{correlation_id}" >>),
     customerId    |-> lr_eval_string(params[w], << "{customer_id}" >>),
     sessionId     |-> lr_eval_string(params[w], << "{session_id}" >>),
     traceId       |-> lr_eval_string(params[w], << "{trace_id}" >>)]

\* request r carries the identifiers ids wherever it carries identifiers
CarriesIdentifiers(r, ids) ==
    IF r.name = "Journey_Completion_Event"
        THEN /\ HeaderValues(r.headers, "x-correlation-id") = {ids.correlationId}
             /\ r.body.correlationId = ids.correlationId
             /\ r.body.customerId = ids.customerId
        ELSE /\ HeaderValues(r.headers, "x-correlation-id") = {ids.correlationId}
             /\ HeaderValues(r.headers, "x-customer-id") = {ids.customerId}
             /\ HeaderValues(r.headers, "x-session-id") = {ids.sessionId}
             /\ HeaderValues(r.headers, "x-trace-id") = {ids.traceId}
             /\ r.body.journeyId = ids.correlationId
             /\ r.body.customerId = ids.customerId
             /\ r.body.sessionId = ids.sessionId
             /\ r.body.traceId = ids.traceId
             /\ r.body.customerProfile.userId = ids.customerId

\* C8: the identifiers are written before the first step and not changed
\* until Action returns; every request of the iteration carries the
\* identifiers generated at its start, in headers and in body.
IdentifiersFixedInIteration ==
    /\ [](\A w \in vusers :
            InJourney(w) =>
                /\ ParamIdentifiers(w) = issued[<<w, iteration[w]>>]
                /\ \A i \in DOMAIN requests[w] :
                      CarriesIdentifiers(requests[w][i], issued[<<w, iteration[w]>>]))
    /\ [][\A w \in vusers :
            (InJourney(w) /\ InJourney(w)') =>
                /\ ParamIdentifiers(w)' = ParamIdentifiers(w)
                /\ Identifiers(buf[Globals(w)])' = Identifiers(buf[Globals(w)])]_vars

\* the completion event of a second iteration has been sent, the clock
\* having advanced during the run
IdentifiersFixedWitness ==
    \E w \in vusers :
        /\ pc[w] = "completion_wait"
        /\ iteration[w] = 2
        /\ Len(requests[w]) = NumSteps + 1
        /\ now > StartTime

-----------------------------------------------------------------------------
(* C9 *)

\* the two sets of identifiers differ in each of the four identifiers
AllDiffer(a, b) ==
    /\ a.correlationId # b.correlationId
    /\ a.customerId # b.customerId
    /\ a.sessionId # b.sessionId
    /\ a.traceId # b.traceId

\* C9: the identifiers generated for two distinct (Vuser, iteration) pairs
\* of a run differ, each of the four, at whatever seconds they were made.
IdentifiersUnique ==
    \A k1 \in DOMAIN issued : \A k2 \in DOMAIN issued :
        k1 # k2 => AllDiffer(issued[k1], issued[k2])

\* both Vusers have generated the identifiers of both their iterations
IdentifiersUniqueWitness ==
    /\ \A w \in VuserIds : \A i \in 1..2 : <<w, i>> \in DOMAIN issued
    /\ now > StartTime

-----------------------------------------------------------------------------
(* C10 *)

\* the profile vuser_init assigned, as requests see it
Profile(w) ==
    [name    |-> lr_eval_string(params[w], << "{customer_name}" >>),
     email   |-> lr_eval_string(params[w], << "{customer_email}" >>),
     segment |-> lr_eval_string(params[w], << "{customer_segment}" >>),
     trafficSource |-> lr_eval_string(params[w], << "{traffic_source}" >>)]

\* C10: the identifiers of consecutive iterations of a Vuser differ, each
\* of the four; no step of an iteration changes the profile or the traffic
\* source that vuser_init assigned.
RegeneratedAndProfileKept ==
    /\ [](\A w \in vusers : \A i \in 1..MaxIteration :
            (<<w, i>> \in DOMAIN issued /\ <<w, i + 1>> \in DOMAIN issued) =>
                AllDiffer(issued[<<w, i>>], issued[<<w, i + 1>>]))
    /\ [][\A w \in vusers : pc[w] # "init" => Profile(w)' = Profile(w)]_vars

\* a Vuser is through its second iteration, with the profile of index 15
RegeneratedWitness ==
    \E w \in vusers :
        /\ pc[w] = "done"
        /\ <<w, 2>> \in DOMAIN issued
        /\ Profile(w).name = << "Brian Jackson" >>

-----------------------------------------------------------------------------
(* C11 *)

\* the four identifiers of the contract for Vuser w and iteration i when
\* every time(NULL) of the generation returns the same second t
GenerateIdentifiers(w, i, t) ==
    [correlationId |-> FormatCorrelationId(w, i, t),
     customerId    |-> FormatCustomerId(w, i, t),
     sessionId     |-> FormatSessionId(w, i),
     traceId       |-> FormatTraceId(FormatCorrelationId(w, i, t), t)]

\* C11: the seconds at the end of correlationId, the seconds whose
\* remainder mod 10000 ends customerId and the seconds at the end of
\* traceId are one and the same instant t, for every iteration of every
\* Vuser, even when the clock ticks during the generation.
SingleInstant ==
    \A k \in DOMAIN issued :
        \E t \in ClockValues :
            /\ issued[k].correlationId = FormatCorrelationId(k[1], k[2], t)
            /\ issued[k].customerId = FormatCustomerId(k[1], k[2], t)
            /\ issued[k].traceId = FormatTraceId(issued[k].correlationId, t)

-----------------------------------------------------------------------------
(* C12 *)

\* C12: each identifier written by a generation is the value of its format
\* for the Vuser id, the iteration number, the second the clock shows when
\* it is read and the labels of the script, whatever the buffers and
\* parameters held before, whatever the profile is and whatever the other
\* Vusers do; a generation during which the clock shows one second t
\* yields GenerateIdentifiers(w, i, t).
IdentifiersDeterministic ==
    [][\A w \in vusers :
          LET i == iteration[w]
          IN  /\ (pc[w] = "gen_correlation" /\ pc'[w] = "gen_customer") =>
                    /\ buf'[w].correlation_id = FormatCorrelationId(w, i, now)
                    /\ ParamIdentifiers(w)'.correlationId = FormatCorrelationId(w, i, now)
              /\ (pc[w] = "gen_customer" /\ pc'[w] = "gen_trace") =>
                    /\ buf'[w].customer_id = FormatCustomerId(w, i, now)
                    /\ buf'[w].correlation_id = buf[w].correlation_id
              /\ (pc[w] = "gen_trace" /\ pc'[w] = "step_begin") =>
                    /\ ParamIdentifiers(w)' = issued'[<<w, i>>]
                    /\ issued'[<<w, i>>] =
                          [correlationId |-> buf[w].correlation_id,
                           customerId    |-> buf[w].customer_id,
                           sessionId     |-> FormatSessionId(w, i),
                           traceId       |-> FormatTraceId(buf[w].correlation_id, now)]
                    /\ \A t \in ClockValues :
                          (/\ buf[w].correlation_id = FormatCorrelationId(w, i, t)
                           /\ now = t) =>
                              issued'[<<w, i>>] = GenerateIdentifiers(w, i, t)
              /\ (pc[w] \in {"gen_customer", "gen_trace"} /\ pc'[w] = pc[w]) =>
                    buf'[w] = buf[w]]_vars

\* both Vusers have generated the identifiers of their second iteration,
\* with different profiles, one of them with the clock showing one second
\* throughout
IdentifiersDeterministicWitness ==
    /\ \A w \in VuserIds : <<w, 2>> \in DOMAIN issued /\ w \in vusers
    /\ \E a \in vusers : \E b \in vusers : Profile(a) # Profile(b)
    /\ \E w \in vusers : \E t \in ClockValues :
          issued[<<w, 2>>] = GenerateIdentifiers(w, 2, t)

-----------------------------------------------------------------------------
(* C13 *)

\* the value the tracing header of a request of Vuser w carries for step sd
TracingValue(w, sd) ==
    lr_eval_string(params[w],
        FormatDtTestHeader(sd.stepName, script.LSN, script.LTN, w, "{correlation_id}"))

\* the values attached for step sd under x-step-name, x-service-name and
\* the tracing header
StepValues(w, sd) ==
    { << sd.stepName >>, << sd.serviceName >>, TracingValue(w, sd) }

\* C13: the request of every step carries, under x-step-name,
\* x-service-name and the tracing header, the values of that step and no
\* others: nothing attached for the step before it is present on it, and
\* nothing is queued when the next step begins.
NoHeaderLeak ==
    \A w \in vusers :
        LET reqs == StepRequests(w)
        IN  /\ \A i \in 1..Len(reqs) :
                  LET hs == reqs[i].headers
                      sd == script.steps[i]
                      earlier == IF i = 1 THEN {}
                                          ELSE StepValues(w, script.steps[i - 1])
                  IN  /\ HeaderValues(hs, "x-step-name") = {<< sd.stepName >>}
                      /\ HeaderValues(hs, "x-service-name") = {<< sd.serviceName >>}
                      /\ HeaderValues(hs, "X-dynaTrace") = {TracingValue(w, sd)}
                      /\ {hs[j].value : j \in DOMAIN hs} \cap earlier = {}
            /\ pc[w] \in {"step_begin", "journey_end"} => headers[w] = NoHeaders

\* the request of the sixth step of a second iteration has been sent
NoHeaderLeakWitness ==
    \E w \in vusers :
        /\ iteration[w] = 2
        /\ pc[w] = "step_wait"
        /\ Len(StepRequests(w)) = 6

-----------------------------------------------------------------------------
(* C14 *)

\* C14: when the clean-up after a step is done, every header name that
\* was attached for the step has been passed to web_revert_auto_header
\* under that very name, and the cookie jar is empty.
HeadersReleased ==
    \A w \in vusers :
        pc[w] = "think" =>
            LET reqs == StepRequests(w)
            IN  /\ HeaderNames(reqs[Len(reqs)].headers) \subseteq reverted[w]
                /\ cookies[w] = {}

-----------------------------------------------------------------------------
(* C15 *)

\* the names of the twelve headers of a step request
TwelveNames ==
    { "X-dynaTrace", "x-correlation-id", "x-customer-id", "x-session-id",
      "x-trace-id", "x-step-name", "x-service-name", "x-customer-segment",
      "x-traffic-source", "x-test-iteration", "Content-Type", "User-Agent" }

\* C15: every step request carries twelve headers, one under each of the
\* twelve names, Content-Type being application/json and User-Agent the
\* agent string of the script.
TwelveHeaders ==
    \A w \in vusers :
        LET reqs == StepRequests(w)
        IN  \A i \in 1..Len(reqs) :
                LET hs == reqs[i].headers
                IN  /\ Len(hs) = 12
                    /\ HeaderNames(hs) = TwelveNames
                    /\ HeaderValues(hs, "Content-Type") = {<< "application/json" >>}
                    /\ HeaderValues(hs, "User-Agent") = {<< "LoadRunner-BizObs-Agent/1.0" >>}

\* all six step requests of a second iteration of the Bt journey are out
TwelveHeadersWitness ==
    \E w \in vusers :
        /\ script = BtSix
        /\ iteration[w] = 2
        /\ pc[w] = "journey_end"
        /\ Len(StepRequests(w)) = 6

-----------------------------------------------------------------------------
(* C16 *)

\* the field keys of the tracing header, with their separators, in the
\* order downstream parsers expect
FieldKeys == << "TSN=", ";LSN=", ";LTN=", ";VU=", ";SI=", ";PC=", ";AN=", ";CID=" >>

\* the chunks of v that are field keys, in the order they occur
KeysOf(v) == SelectSeq(v, LAMBDA c : \E k \in DOMAIN FieldKeys : FieldKeys[k] = c)

\* the value of field number k of the tracing header value v: the chunks
\* between key k and the next key (the end of v after the last key)
FieldValue(v, k) ==
    LET from == CHOOSE j \in DOMAIN v : v[j] = FieldKeys[k]
        to   == IF k = Len(FieldKeys) THEN Len(v) + 1
                ELSE CHOOSE j \in DOMAIN v : v[j] = FieldKeys[k + 1]
    IN  SubSeq(v, from + 1, to - 1)

\* C16: the tracing header of every step request lists the fields TSN,
\* LSN, LTN, VU, SI, PC, AN, CID in this order, each once; TSN is the name
\* of the step of the request, VU the Vuser id and CID the correlation id
\* generated for the iteration.
TracingFieldOrder ==
    \A w \in vusers :
        LET reqs == StepRequests(w)
        IN  \A i \in 1..Len(reqs) :
                \A v \in HeaderValues(reqs[i].headers, "X-dynaTrace") :
                    /\ KeysOf(v) = FieldKeys
                    /\ v[1] = "TSN="
                    /\ FieldValue(v, 1) = << script.steps[i].stepName >>
                    /\ FieldValue(v, 2) = << script.LSN >>
                    /\ FieldValue(v, 3) = << script.LTN >>
                    /\ FieldValue(v, 4) = FormatInt(w)
                    /\ InJourney(w) =>
                          FieldValue(v, 8) = issued[<<w, iteration[w]>>].correlationId

\* the second step request of a second iteration of Vuser 11 is out
TracingFieldOrderWitness ==
    \E w \in vusers :
        /\ w = 11
        /\ iteration[w] = 2
        /\ Len(StepRequests(w)) >= 2
        /\ HeaderValues(StepRequests(w)[2].headers, "X-dynaTrace") # {}

-----------------------------------------------------------------------------
(* C17 *)

\* C17: a step whose request got no response is ended with outcome Fail,
\* and Action goes on to the pause and the next step.
NoResponseIsFail ==
    \A w \in vusers :
        (pc[w] \in {"think", "aborted"} /\ response[w] = NoResponse) =>
            LET ends == StepEndEvents(w)
            IN  /\ ends[Len(ends)].outcome = "Fail"
                /\ pc[w] = "think"

-----------------------------------------------------------------------------
(* C18 *)

\* the pauses of the recorded iteration
ThinkEvents(w) == SelectSeq(trace[w], LAMBDA e : e.ev = "think")

\* C18: every ended step is followed by a pause, and the pause after step
\* k lasts the seconds the script fixes for step k, in every iteration of
\* every Vuser and whatever the response of the step was.
ThinkTimeFixed ==
    \A w \in vusers :
        LET th == ThinkEvents(w)
        IN  /\ Len(th) = Len(StepEndEvents(w))
            /\ \A k \in 1..Len(th) :
                  /\ th[k].name = script.steps[k].stepName
                  /\ th[k].secs = script.steps[k].thinkTime

\* the pause after a failed request of the second step, second iteration
ThinkTimeFixedWitness ==
    \E w \in vusers :
        /\ pc[w] = "think"
        /\ iteration[w] = 2
        /\ step[w] = 2
        /\ RequestFailed(response[w])
        /\ Len(ThinkEvents(w)) = 2
        /\ ThinkEvents(w)[2].secs > 0

-----------------------------------------------------------------------------
(* C19 *)

RECURSIVE SumSecs(_)
\* the sum of the seconds of the events es
SumSecs(es) == IF es = << >> THEN 0 ELSE Head(es).secs + SumSecs(Tail(es))

\* C19: the duration measured for the journey transaction of an iteration
\* is at least the sum of the durations measured for the step transactions
\* of that iteration.
JourneyCoversSteps ==
    \A w \in vusers :
        \A j \in 1..Len(JourneyEndEvents(w)) :
            JourneyEndEvents(w)[j].secs >= SumSecs(StepEndEvents(w))

\* a completed iteration of a six-step journey in which the clock advanced
\* while one step was waiting for its response, and again while another
\* one was
JourneyCoversStepsWitness ==
    \E w \in vusers :
        /\ Returned(w)
        /\ Len(JourneyEndEvents(w)) = 1
        /\ Len(StepEndEvents(w)) = 6
        /\ Cardinality({k \in 1..6 : StepEndEvents(w)[k].secs > 0}) = 2

-----------------------------------------------------------------------------
(* C20 *)

\* the profile vuser_init assigned to Vuser w
AssignedProfile(w) ==
    [name    |-> << At(customer_names, rng[w][1] % 16) >>,
     email   |-> << At(customer_emails, rng[w][1] % 16) >>,
     segment |-> << At(customer_segments, rng[w][2] % 6) >>,
     trafficSource |-> << At(traffic_sources, rng[w][3] % 8) >>]

\* the identifiers generated so far by the Vusers other than w
IssuedByOthers(w) == {issued[k] : k \in {x \in DOMAIN issued : x[1] # w}}

\* request r of Vuser w carries the Vuser id and the profile of w
CarriesOwn(w, r) ==
    IF r.name = "Journey_Completion_Event"
        THEN /\ r.body.customerName = AssignedProfile(w).name
             /\ r.body.customerSegment = AssignedProfile(w).segment
             /\ \A v \in HeaderValues(r.headers, "x-dynatrace-test") :
                   FieldValue(v, 4) = FormatInt(w)
        ELSE /\ r.body.customerProfile.name = AssignedProfile(w).name
             /\ r.body.customerProfile.email = AssignedProfile(w).email
             /\ r.body.customerProfile.segment = AssignedProfile(w).segment
             /\ HeaderValues(r.headers, "x-customer-segment") = {AssignedProfile(w).segment}
             /\ HeaderValues(r.headers, "x-traffic-source") = {AssignedProfile(w).trafficSource}
             /\ \A v \in HeaderValues(r.headers, "X-dynaTrace") :
                   FieldValue(v, 4) = FormatInt(w)

\* C20: with several Vusers running at the same time, every request of a
\* Vuser carries the identifiers generated by that Vuser for its running
\* iteration, its own Vuser id in the tracing header and the profile
\* assigned to it, and no identifier generated by another Vuser.
OwnedByWorker ==
    \A w \in vusers :
        InJourney(w) =>
            LET own    == issued[<<w, iteration[w]>>]
                others == IssuedByOthers(w)
            IN  /\ \A o \in others : AllDiffer(own, o)
                /\ ParamIdentifiers(w) = own
                /\ Identifiers(buf[w]) = own
                /\ \A i \in DOMAIN requests[w] :
                      /\ CarriesIdentifiers(requests[w][i], own)
                      /\ CarriesOwn(w, requests[w][i])

\* both Vusers are in their second iteration at the same time, with
\* requests out and different profiles
OwnedByWorkerWitness ==
    /\ \A w \in VuserIds :
          w \in vusers /\ iteration[w] = 2 /\ InJourney(w) /\ Len(requests[w]) >= 2
    /\ \E a \in vusers : \E b \in vusers :
          /\ AssignedProfile(a).name # AssignedProfile(b).name
          /\ AssignedProfile(a).segment # AssignedProfile(b).segment

-----------------------------------------------------------------------------
(* C26 *)

\* the calls of lr_end_transaction in the recorded iteration, whether the
\* transaction they name was open or not
EndCalls(w) == SelectSeq(trace[w], LAMBDA e : e.ev \in {"end", "end_not_open"})

\* C26: the transaction of every step is started once before the request
\* and ended once after it, with the outcome of the classification; no
\* lr_end_transaction call names a transaction that is not open.
EndsOnlyOpen ==
    \A w \in vusers :
        /\ \A i \in DOMAIN trace[w] : trace[w][i].ev # "end_not_open"
        /\ \A k \in 1..Len(StepEndEvents(w)) :
              /\ StepEndEvents(w)[k].name = script.steps[k].stepName
              /\ Cardinality({i \in StepMarks(w, "start") :
                                 trace[w][i].name = script.steps[k].stepName}) = 1
        /\ Len(EndCalls(w)) <= Cardinality(StepMarks(w, "start")) + 1

-----------------------------------------------------------------------------
(* C27 *)

\* C27: when step K has been classified, the parameter status, which the
\* classification reads, is set and holds the HTTP status of the response
\* to the request of step K.
StatusIsOwnResponse ==
    \A w \in vusers :
        (pc[w] = "think" /\ response[w] \in HttpStatuses) =>
            /\ "status" \in DOMAIN params[w]
            /\ atoi(lr_eval_string(params[w], << "{status}" >>)) = response[w]

-----------------------------------------------------------------------------
(* C29 *)

\* C29: the tracing header of the completion event was built for the
\* completion event: its TSN field does not name a step of the journey.
CompletionTracingFresh ==
    \A w \in vusers :
        LET c == CompletionRequests(w)
        IN  \A i \in 1..Len(c) :
                \A v \in HeaderValues(c[i].headers, "x-dynatrace-test") :
                    \A k \in 1..NumSteps :
                        FieldValue(v, 1) # << script.steps[k].stepName >>

-----------------------------------------------------------------------------
(* C28 *)

\* the names of the step transactions started in the recorded iteration, in
\* the order of their start
StepStartNames(w) ==
    LET st == SelectSeq(trace[w],
                  LAMBDA e : e.ev = "start" /\ e.name # JourneyStartName)
    IN  [i \in DOMAIN st |-> st[i].name]

\* C28: the i-th step request of an iteration names its step by one string:
\* the TSN field of its tracing header, its x-step-name header, the stepName
\* of its body and the name of the i-th step transaction are the name of
\* step i of the journey; its x-service-name header equals the serviceName
\* of its body; its body carries one step, whose stepNumber is i.
NamedConsistently ==
    \A w \in vusers :
        LET reqs == StepRequests(w)
            tx   == StepStartNames(w)
        IN  /\ Len(tx) = Len(reqs)
            /\ \A i \in DOMAIN reqs :
                  LET r    == reqs[i]
                      name == script.steps[i].stepName
                  IN  /\ \A v \in HeaderValues(r.headers, "X-dynaTrace") :
                            FieldValue(v, 1) = << name >>
                      /\ HeaderValues(r.headers, "x-step-name") = {<< name >>}
                      /\ Len(r.body.steps) = 1
                      /\ r.body.steps[1].stepName = name
                      /\ r.body.steps[1].stepNumber = i
                      /\ tx[i] = name
                      /\ r.name = name \o "_Journey_Step"
                      /\ HeaderValues(r.headers, "x-service-name")
                            = {<< r.body.steps[1].serviceName >>}
            /\ pc[w] = "step_wait" =>
                  lr_eval_string(params[w], << "{TSN}" >>)
                      = << script.steps[step[w]].stepName >>

\* the last step of a six-step journey has been sent in the second
\* iteration
NamedConsistentlyWitness ==
    \E w \in vusers :
        /\ NumSteps = 6 /\ iteration[w] = 2
        /\ pc[w] = "step_wait" /\ step[w] = 6
        /\ Len(StepRequests(w)) = 6

-----------------------------------------------------------------------------
(* C24 *)

Range(f) == {f[i] : i \in DOMAIN f}

\* C24: vuser_init gives a Vuser a name and an e-mail address (16), a
\* segment (6) and a traffic source (8) of the catalog and sets the maximum
\* body size 1,024,000, three retries, a receive timeout of 30 seconds and
\* the user agent; afterwards no step of any iteration changes the
\* profile, the traffic source or these settings.
ConfiguredOnce ==
    [][\A w \in vusers :
          /\ (pc[w] = "init" /\ pc'[w] # "init") =>
                /\ settings'[w] =
                      [max_html_param_len |-> "1024000", max_retries |-> "3",
                       timeout |-> [Receive |-> 30],
                       user_agent |-> "LoadRunner-BizObs-Agent/1.0"]
                /\ \E i \in 1..16 :
                      /\ Len(customer_names) = 16 /\ Len(customer_emails) = 16
                      /\ Profile(w)'.name = << customer_names[i] >>
                      /\ Profile(w)'.email = << customer_emails[i] >>
                /\ Len(customer_segments) = 6 /\ Len(traffic_sources) = 8
                /\ \E x \in Range(customer_segments) :
                      Profile(w)'.segment = << x >>
                /\ \E x \in Range(traffic_sources) :
                      Profile(w)'.trafficSource = << x >>
          /\ pc[w] # "init" =>
                /\ pc'[w] # "init"
                /\ settings'[w] = settings[w]
                /\ \A n \in {"customer_name", "customer_email",
                              "customer_segment", "traffic_source"} :
                      params'[w][n] = params[w][n]]_vars

\* a Vuser that drew the last name of the catalog has finished its second
\* iteration
ConfiguredOnceWitness ==
    \E w \in vusers :
        /\ iteration[w] = 2 /\ pc[w] = "completion_wait"
        /\ Profile(w).name = << customer_names[16] >>
        /\ settings[w].timeout["Receive"] = 30

-----------------------------------------------------------------------------
(* C21 *)

\* C21: a Vuser runs its iterations one after the other: iteration i+1
\* starts, with the refresh of the identifiers, only when every step and
\* the completion event of iteration i have been sent, and a request of
\* iteration i+1 is sent only then; no Vuser ever waits for another one:
\* whatever the other Vusers have done, a Vuser that has not finished can
\* take its next step.
IterationsInOrder ==
    /\ [](\A w \in vusers :
             (run = "running" /\ pc[w] # "done") => ENABLED VuserStep(w))
    /\ [][\A w \in vusers :
             /\ iteration'[w] # iteration[w] =>
                   /\ iteration'[w] = iteration[w] + 1
                   /\ pc'[w] = "gen_correlation"
                   /\ iteration[w] >= 1 =>
                         /\ Len(StepRequests(w)) = NumSteps
                         /\ Len(CompletionRequests(w)) = 1
                         /\ requests'[w] = requests[w]
             /\ Len(requests'[w]) > Len(requests[w]) =>
                   /\ iteration'[w] = iteration[w]
                   /\ Len(requests'[w]) = Len(requests[w]) + 1
                   /\ HeaderValues(requests'[w][Len(requests'[w])].headers,
                                   "x-correlation-id")
                         = {issued[<< w, iteration[w] >>].correlationId}
                   /\ \A i \in 1..(iteration[w] - 1) :
                         << w, i >> \in DOMAIN issued]_vars

\* one Vuser has sent the first step of its second iteration while the
\* other one has not started yet
IterationsInOrderWitness ==
    \E a, b \in vusers :
        /\ a # b
        /\ iteration[a] = 2 /\ pc[a] = "step_wait" /\ step[a] = 1
        /\ pc[b] = "init"

-----------------------------------------------------------------------------
(* C22 *)

\* the keys of the step results, of the journey results in the tally
StepResultKeys == {k \in DOMAIN results : k[3] # JourneyStartName}

JourneyResultKeys == {k \in DOMAIN results : k[3] = JourneyStartName}

\* the iteration the recorded events of Vuser w belong to: after Action has
\* returned and before the next iteration records anything, the one before
RecordedIteration(w) ==
    IF Returned(w) /\ pc[w] # "done" THEN iteration[w] - 1 ELSE iteration[w]

-----------------------------------------------------------------------------
(* C23 *)

\* Vuser w was stopped while the request of a step was in flight
StoppedMidStep(w) ==
    /\ pc[w] = "stopped"
    /\ trace[w] # << >>
    /\ trace[w][Len(trace[w])].ev = "request"
    /\ trace[w][Len(trace[w])].name # "Journey_Completion_Event"

\* C23: when the run is stopped while a step of an iteration of a Vuser is
\* in flight, the tally holds no journey result for that iteration, neither
\* Pass nor Fail, and the Vuser sends nothing more: the steps after the one
\* in flight and the remaining iterations are skipped.
StopDiscardsIteration ==
    /\ [](\A w \in vusers :
             StoppedMidStep(w) =>
                 /\ << w, iteration[w], JourneyStartName >> \notin DOMAIN results
                 /\ JourneyEndEvents(w) = << >>
                 /\ Len(StepRequests(w)) = step[w]
                 /\ CompletionRequests(w) = << >>
                 /\ open[w] = << >>)
    /\ [][run = "stopped" =>
             /\ run' = run /\ pc' = pc /\ iteration' = iteration
             /\ requests' = requests /\ trace' = trace
             /\ results' = results]_vars

\* the run was stopped during the first step of the second iteration of a
\* six-step journey, and the clock has advanced since
StopDiscardsWitness ==
    \E w \in vusers :
        /\ StoppedMidStep(w)
        /\ NumSteps = 6 /\ iteration[w] = 2 /\ step[w] = 1
        /\ << w, 1, JourneyStartName >> \in DOMAIN results
        /\ now > StartTime

-----------------------------------------------------------------------------
(* C25 *)

\* C25: in a run configured without Vusers, without iterations or with a
\* malformed journey definition no Vuser is ever started: no vuser_init
\* runs, no step request and no completion event is sent, no result is
\* submitted.
InvalidRunSendsNothing ==
    (vusers = {} \/ iterations < 1 \/ script \in Malformed) =>
        /\ run \in {"startup", "rejected"}
        /\ results = NoResults
        /\ \A w \in vusers :
              /\ pc[w] = "init"
              /\ requests[w] = << >>
              /\ trace[w] = << >>
              /\ headers[w] = NoHeaders

\* a run of a Vuser that was given no iteration has been rejected, and the
\* clock has advanced since
InvalidRunWitness ==
    /\ run = "rejected"
    /\ vusers # {} /\ iterations = 0 /\ script \in Scripts
    /\ now > StartTime

-----------------------------------------------------------------------------
(* C30 *)

\* the indexes of the events ev of step transactions, of the pauses, among
\* the first i events recorded for Vuser w
StepMarksUpTo(w, ev, i) == {j \in StepMarks(w, ev) : j <= i}

\* the journey transaction of Vuser w is open at event i of its record
JourneyOpenAt(w, i) ==
    /\ \E j \in 1..i :
          trace[w][j].ev = "start" /\ trace[w][j].name = JourneyStartName
    /\ \A j \in 1..i :
          ~(trace[w][j].ev = "end" /\ trace[w][j].name = JourneyStartName)

\* the pause of every step starts after the end of the step's transaction
\* and is over before the transaction of the next step starts; every pause
\* lies inside the journey transaction; no pause is counted in a step
\* transaction
PausesPlaced ==
    \A w \in vusers :
        /\ (\E k \in DOMAIN open[w] : open[w][k].pausedAt # NotPaused)
              <=> pc[w] = "think"
        /\ pc[w] = "think" => DOMAIN open[w] = {JourneyStartName}
        /\ \A k \in DOMAIN open[w] \ {JourneyStartName} :
              open[w][k].think = 0 /\ open[w][k].pausedAt = NotPaused
        /\ \A i \in StepMarks(w, "think") :
              LET K == Cardinality(StepMarksUpTo(w, "think", i))
              IN  /\ trace[w][i].name = script.steps[K].stepName
                  /\ Cardinality(StepMarksUpTo(w, "start", i)) = K
                  /\ Cardinality(StepMarksUpTo(w, "end", i)) = K
                  /\ JourneyOpenAt(w, i)
        /\ JourneyEndEvents(w) # << >> =>
              Cardinality(StepMarks(w, "think")) = NumSteps

\* Vuser w ends the journey transaction in this step
JourneyEndsNow(w) == pc[w] = "journey_end" /\ pc'[w] = "completion_wait"

\* C30 as claimed: the pauses are placed between the step transactions and
\* inside the journey transaction, and the duration of the journey is the
\* sum of the durations of its steps and of its pauses.
PausesAccountForJourney ==
    /\ []PausesPlaced
    /\ [][\A w \in vusers :
             JourneyEndsNow(w) =>
                 JourneyEndEvents(w)'[1].secs
                     = SumSecs(StepEndEvents(w)')
                         + open[w][JourneyStartName].think]_vars

\* C30, amended: the pauses are placed between the step transactions and
\* inside the journey transaction, no step duration includes a pause, and
\* the duration of the journey is at least the sum of the durations of its
\* steps and of its pauses.
PausesInsideJourney ==
    /\ []PausesPlaced
    /\ [][\A w \in vusers :
             JourneyEndsNow(w) =>
                 JourneyEndEvents(w)'[1].secs
                     >= SumSecs(StepEndEvents(w)')
                          + open[w][JourneyStartName].think]_vars

\* the last pause of a six-step journey is over; the clock advanced during
\* a step and during a pause
PausesInsideJourneyWitness ==
    \E w \in vusers :
        /\ pc[w] = "journey_end" /\ NumSteps = 6
        /\ open[w][JourneyStartName].think > 0
        /\ SumSecs(StepEndEvents(w)) > 0

-----------------------------------------------------------------------------
(* C31 *)

\* C31: the completion event is sent after the journey transaction has
\* been ended: when its request is issued and while it is in flight no
\* transaction is open, and the duration recorded for the journey does not
\* change while the completion event is in flight.
CompletionOutsideJourney ==
    /\ [](\A w \in vusers :
             CompletionRequests(w) # << >> =>
                 /\ open[w] = << >>
                 /\ Len(JourneyEndEvents(w)) = 1
                 /\ \A i \in DOMAIN trace[w] :
                       (trace[w][i].ev = "request"
                          /\ trace[w][i].name = "Journey_Completion_Event") =>
                           \E j \in 1..(i - 1) :
                               /\ trace[w][j].ev = "end"
                               /\ trace[w][j].name = JourneyStartName)
    /\ [][\A w \in vusers :
             pc[w] = "completion_wait" =>
                 JourneyEndEvents(w)' = JourneyEndEvents(w)]_vars

\* the completion event of a journey that took no time is in flight, and
\* the clock has advanced
CompletionOutsideWitness ==
    \E w \in vusers :
        /\ pc[w] = "completion_wait"
        /\ JourneyEndEvents(w)[1].secs = 0
        /\ issued[<< w, iteration[w] >>].correlationId
              = FormatCorrelationId(w, iteration[w], StartTime)
        /\ now > StartTime

-----------------------------------------------------------------------------
(* C32 *)

\* the tracing header values of request r, under either of the two names the
\* script attaches the buffer dt_test_header with
TracingValues(r) ==
    HeaderValues(r.headers, "X-dynaTrace")
        \cup HeaderValues(r.headers, "x-dynatrace-test")

\* the Vuser id embedded in identifier id: the digits between its label and
\* the next separator
EmbeddedVuser(id) ==
    LET to == CHOOSE j \in 2..Len(id) :
                  id[j] = "_" /\ \A k \in 2..(j - 1) : id[k] # "_"
    IN  SubSeq(id, 2, to - 1)

\* C32: in every request the run label embedded in the correlation id is the
\* LTN field of the tracing header, the journey label embedded in the session
\* id is its LSN field and the Vuser id embedded in the identifiers is its VU
\* field, which is the id of the sending Vuser; no header of a request holds
\* the LSN or the LTN saved by vuser_init.
LabelsConsistent ==
    \A w \in vusers :
        \A i \in DOMAIN requests[w] :
            LET r == requests[w][i]
            IN  /\ TracingValues(r) # {}
                /\ \A h \in DOMAIN r.headers :
                      \A k \in DOMAIN r.headers[h].value :
                          r.headers[h].value[k] \notin {script.initLSN, script.initLTN}
                /\ \A v \in TracingValues(r) :
                      /\ Len(FieldValue(v, 2)) = 1
                      /\ Len(FieldValue(v, 3)) = 1
                      /\ FieldValue(v, 4) = FormatInt(w)
                      /\ \A c \in HeaderValues(r.headers, "x-correlation-id") :
                            /\ c[1] = "LR_" \o FieldValue(v, 3)[1] \o "_"
                            /\ EmbeddedVuser(c) = FieldValue(v, 4)
                      /\ \A c \in HeaderValues(r.headers, "x-session-id") :
                            /\ c[1] = "session_" \o FieldValue(v, 2)[1] \o "_"
                            /\ EmbeddedVuser(c) = FieldValue(v, 4)
                      /\ \A c \in HeaderValues(r.headers, "x-customer-id") :
                            EmbeddedVuser(c) = FieldValue(v, 4)

\* Vuser 11 has sent the completion event of its second iteration, after
\* vuser_init saved labels that differ from those of Action
LabelsConsistentWitness ==
    /\ script.initLSN # script.LSN
    /\ script.initLTN # script.LTN
    /\ 11 \in vusers
    /\ iteration[11] = 2
    /\ pc[11] = "completion_wait"
    /\ Len(StepRequests(11)) = NumSteps
    /\ \A i \in DOMAIN requests[11] :
          /\ HeaderValues(requests[11][i].headers, "x-correlation-id") # {}
          /\ i <= NumSteps =>
                HeaderValues(requests[11][i].headers, "x-session-id") # {}

-----------------------------------------------------------------------------
(* C33 *)

\* the iteration number embedded in identifier id: the digits between its
\* first and its second separator
EmbeddedIteration(id) ==
    LET first == CHOOSE j \in 2..Len(id) :
                     id[j] = "_" /\ \A k \in 2..(j - 1) : id[k] # "_"
        rest  == SubSeq(id, first + 1, Len(id))
        stop  == IF \E j \in DOMAIN rest : rest[j] = "_"
                     THEN CHOOSE j \in DOMAIN rest :
                              rest[j] = "_" /\ \A k \in 1..(j - 1) : rest[k] # "_"
                     ELSE Len(rest) + 1
    IN  SubSeq(rest, 1, stop - 1)

\* C33: the x-test-iteration header of every step request holds the number
\* of the iteration, the number embedded in the correlation id, the customer
\* id and the session id the request carries.
IterationHeaderCurrent ==
    \A w \in vusers :
        LET reqs == StepRequests(w)
        IN  \A i \in 1..Len(reqs) :
                LET hs == reqs[i].headers
                IN  /\ HeaderValues(hs, "x-test-iteration") # {}
                    /\ \A v \in HeaderValues(hs, "x-test-iteration") :
                          \A n \in {"x-correlation-id", "x-customer-id",
                                     "x-session-id"} :
                              \A c \in HeaderValues(hs, n) :
                                  v = EmbeddedIteration(c)

-----------------------------------------------------------------------------
(* C34 *)

\* Vuser ids and iteration numbers with one, three and four digits
IdValues == {1, 999, 1000, 9999}

\* a Vuser with an id of IdValues, vuser_init done, at the call of Action
\* for an iteration of IdValues: the inputs of the identifier formats; what
\* the iterations before left behind is not read by the formats and is not
\* kept
InitIdentifiers ==
    /\ script \in Scripts
    /\ iterations = 9999
    /\ run = "running"
    /\ results = NoResults
    /\ vusers \in {{w} : w \in IdValues}
    /\ rng \in [vusers -> RandStreams]
    /\ target = Up
    /\ clock = OneShortTick
    /\ now = StartTime
    /\ pc = [w \in vusers |-> "gen_correlation"]
    /\ step = [w \in vusers |-> 0]
    /\ iteration \in [vusers -> IdValues]
    /\ buf = [w \in vusers |-> EmptyBuf]
    /\ params = [w \in vusers |-> InitParams(rng[w])]
    /\ settings = [w \in vusers |-> TransportSettings(DefaultSettings)]
    /\ headers = [w \in vusers |-> NoHeaders]
    /\ cookies = [w \in vusers |-> {}]
    /\ reverted = [w \in vusers |-> {}]
    /\ open = [w \in vusers |-> << >>]
    /\ trace = [w \in vusers |-> << >>]
    /\ requests = [w \in vusers |-> << >>]
    /\ response = [w \in vusers |-> NoResponse]
    /\ issued = << >>

\* the identifier refresh of Action, the clock advancing between its reads
NextIdentifiers ==
    \/ Tick
    \/ \E w \in vusers : GenCorrelationId(w)
    \/ \E w \in vusers : GenCustomerId(w)
    \/ \E w \in vusers : GenTraceId(w)

IdentifierSpec == InitIdentifiers /\ [][NextIdentifiers]_vars

\* C34: for every Vuser id and iteration number from 1 to 9999 and every
\* clock reading of ten digits, each identifier sprintf writes is at most 63
\* characters long, so that it fits with its terminator in its buffer of 64
\* bytes.
IdentifiersFit ==
    \A w \in vusers :
        \A f \in {"correlation_id", "customer_id", "session_id", "trace_id"} :
            StrLen(buf[Globals(w)][f]) < IdBufferSize

-----------------------------------------------------------------------------
(* C35 *)

\* values rand() can return: the least, values around the catalog sizes, and
\* RAND_MAX of a 15-bit and of a 31-bit generator
RandValues == {0, 1, 5, 6, 7, 8, 15, 16, 32767, 2147483647}

\* runs of a single Vuser whose three rand() calls return any of RandValues
InitProfile ==
    RunInit(Scripts, {{w} : w \in VuserIds},
            {<<a, b, c>> : a \in RandValues, b \in RandValues, c \in RandValues},
            Up, OneShortTick)

\* the run starts and the Vuser runs vuser_init
NextProfile ==
    \/ StartRun
    \/ \E w \in vusers : vuser_init(w)

ProfileSpec == InitProfile /\ [][NextProfile]_vars

\* the indexes of arr, counted from 0 as in C, at which it holds v
IndexesOf(arr, v) == {k \in 0..(Len(arr) - 1) : << At(arr, k) >> = v}

\* C35: the profile vuser_init saves is consistent and in range: the name
\* and the email are the entries of their catalogs at one index of 0..15,
\* the segment is the entry of its catalog at an index of 0..5 and the
\* traffic source the entry of its catalog at an index of 0..7, whatever
\* rand() returns.
ProfileInRange ==
    \A w \in vusers :
        pc[w] # "init" =>
            /\ IndexesOf(customer_names, Profile(w).name)
                   \cap IndexesOf(customer_emails, Profile(w).email)
                   \cap 0..15 # {}
            /\ IndexesOf(customer_segments, Profile(w).segment) \cap 0..5 # {}
            /\ IndexesOf(traffic_sources, Profile(w).trafficSource) \cap 0..7 # {}

\* a Vuser has drawn the last entry of every catalog, rand() having
\* returned RAND_MAX of a 15-bit generator, then 5 and 15
ProfileInRangeWitness ==
    \E w \in vusers :
        /\ pc[w] = "gen_correlation"
        /\ rng[w] = <<32767, 5, 15>>
        /\ Profile(w) = [name |-> << "Brian Jackson" >>,
                         email |-> << "brian.jackson@email.com" >>,
                         segment |-> << "Startup" >>,
                         trafficSource |-> << "Content_Marketing" >>]

====
